---------------------------- MODULE Spec2Model ----------------------------
(***************************************************************************)
(* A model of the FX shader compiler (src/src/fxc.c) and of the file       *)
(* loading step of its runtime loader (src/src/fx_runtime.c).              *)
(*                                                                         *)
(* Text is modelled byte by byte: a C string is the sequence of its        *)
(* characters, each a one-character string; Str gives the character       *)
(* sequence of a string literal.  A pointer is a record                    *)
(* [blk, off]: the heap block it points into and the offset in it; block 0 *)
(* is the null pointer and block 1 is the source buffer main() allocates.  *)
(***************************************************************************)
EXTENDS Integers, Sequences, FiniteSets, TLC

\* The character sequence of a string literal.
Str(s) == [i \in 1..Len(s) |-> SubSeq(s, i, i)]

\* A local of a C function: v is computed once and K is the code that
\* follows the assignment.
Bind(v, K(_)) == K(v)

(***************************************************************************)
(* Token types: the enumerators of TokenType, in declaration order.        *)
(***************************************************************************)
TOKEN_EOF == 0
TOKEN_IDENTIFIER == 1
TOKEN_NUMBER == 2
TOKEN_LBRACE == 3
TOKEN_RBRACE == 4
TOKEN_LPAREN == 5
TOKEN_RPAREN == 6
TOKEN_SEMICOLON == 7
TOKEN_COMMA == 8
TOKEN_EQUAL == 9
TOKEN_ASTERISK == 10
TOKEN_DOT == 11
TOKEN_COLON == 12
TOKEN_MINUS == 13
TOKEN_PLUS == 14
TOKEN_SLASH == 15
TOKEN_LT == 16
TOKEN_GT == 17
TOKEN_AMPERSAND == 18
TOKEN_PIPE == 19
TOKEN_EXCLAMATION == 20
TOKEN_SHADER == 21
TOKEN_UNIFORM == 22
TOKEN_INPUT == 23
TOKEN_VOID == 24
TOKEN_OUT == 25
TOKEN_VERTEX_SHADER == 26
TOKEN_FRAGMENT_SHADER == 27
TOKEN_FLOAT == 28
TOKEN_VEC2 == 29
TOKEN_VEC3 == 30
TOKEN_VEC4 == 31
TOKEN_MAT4 == 32
TOKEN_SAMPLER2D == 33
TOKEN_SAMPLERCUBE == 34

\* The text token_type_str returns for a token type.
token_type_str(type) ==
    CASE type = TOKEN_EOF -> Str("EOF")
      [] type = TOKEN_IDENTIFIER -> Str("IDENTIFIER")
      [] type = TOKEN_NUMBER -> Str("NUMBER")
      [] type = TOKEN_LBRACE -> Str("{")
      [] type = TOKEN_RBRACE -> Str("}")
      [] type = TOKEN_LPAREN -> Str("(")
      [] type = TOKEN_RPAREN -> Str(")")
      [] type = TOKEN_SEMICOLON -> Str(";")
      [] type = TOKEN_COMMA -> Str(",")
      [] type = TOKEN_EQUAL -> Str("=")
      [] type = TOKEN_ASTERISK -> Str("*")
      [] type = TOKEN_DOT -> Str(".")
      [] type = TOKEN_COLON -> Str(":")
      [] type = TOKEN_MINUS -> Str("-")
      [] type = TOKEN_PLUS -> Str("+")
      [] type = TOKEN_SLASH -> Str("/")
      [] type = TOKEN_LT -> Str("<")
      [] type = TOKEN_GT -> Str(">")
      [] type = TOKEN_AMPERSAND -> Str("&")
      [] type = TOKEN_PIPE -> Str("|")
      [] type = TOKEN_EXCLAMATION -> Str("!")
      [] type = TOKEN_SHADER -> Str("shader")
      [] type = TOKEN_UNIFORM -> Str("uniform")
      [] type = TOKEN_INPUT -> Str("input")
      [] type = TOKEN_VOID -> Str("void")
      [] type = TOKEN_OUT -> Str("out")
      [] type = TOKEN_VERTEX_SHADER -> Str("vertex_shader")
      [] type = TOKEN_FRAGMENT_SHADER -> Str("fragment_shader")
      [] type = TOKEN_FLOAT -> Str("float")
      [] type = TOKEN_VEC2 -> Str("vec2")
      [] type = TOKEN_VEC3 -> Str("vec3")
      [] type = TOKEN_VEC4 -> Str("vec4")
      [] type = TOKEN_MAT4 -> Str("mat4")
      [] type = TOKEN_SAMPLER2D -> Str("sampler2D")
      [] type = TOKEN_SAMPLERCUBE -> Str("samplerCube")
      [] OTHER -> Str("?")

(***************************************************************************)
(* Lexer.  The lexer state of the model is the byte offset pos; line and   *)
(* col are only ever printed in diagnostics and are left out.              *)
(***************************************************************************)
\* The terminating NUL of a C string.
NUL == "\\0"

\* s[p] in C: the byte at offset p of the NUL-terminated string s.
CharAt(s, p) == IF p < Len(s) THEN s[p + 1] ELSE NUL

Lower == {"a", "b", "c", "d", "e", "f", "g", "h", "i", "j", "k", "l", "m",
          "n", "o", "p", "q", "r", "s", "t", "u", "v", "w", "x", "y", "z"}
Upper == {"A", "B", "C", "D", "E", "F", "G", "H", "I", "J", "K", "L", "M",
          "N", "O", "P", "Q", "R", "S", "T", "U", "V", "W", "X", "Y", "Z"}
Digit == {"0", "1", "2", "3", "4", "5", "6", "7", "8", "9"}

is_alpha(c) == c \in Lower \/ c \in Upper \/ c = "_"
is_digit(c) == c \in Digit
is_alnum(c) == is_alpha(c) \/ is_digit(c)

\* The inner loop of a line comment: up to the newline or the NUL.
RECURSIVE skip_line_comment(_, _)
skip_line_comment(s, p) ==
    IF CharAt(s, p) # NUL /\ CharAt(s, p) # "\n"
    THEN skip_line_comment(s, p + 1) ELSE p

\* The inner loop of a block comment: up to the closing marker or the NUL.
RECURSIVE skip_block_comment(_, _)
skip_block_comment(s, p) ==
    IF CharAt(s, p) # NUL /\ ~(CharAt(s, p) = "*" /\ CharAt(s, p + 1) = "/")
    THEN skip_block_comment(s, p + 1) ELSE p

\* A block comment whose closing marker is skipped without looking for it.
after_block_comment_unchecked(s, q) == q + 2

\* The byte offset after a block comment whose body ends at q.
after_block_comment(s, q) == IF CharAt(s, q) # NUL THEN q + 2 ELSE q

RECURSIVE skip_whitespace(_, _)
skip_whitespace(s, p) ==
    Bind(CharAt(s, p), LAMBDA c :
    IF c = " " \/ c = "\t" \/ c = "\r" THEN skip_whitespace(s, p + 1)
    ELSE IF c = "\n" THEN skip_whitespace(s, p + 1)
    ELSE IF c = "/" /\ CharAt(s, p + 1) = "/"
         THEN skip_whitespace(s, skip_line_comment(s, p + 2))
    ELSE IF c = "/" /\ CharAt(s, p + 1) = "*"
         THEN skip_whitespace(s, after_block_comment(s, skip_block_comment(s, p + 2)))
    ELSE p)

\* strncmp of a token text against a keyword of the same length.
match_keyword(text, kw) == Len(text) = Len(kw) /\ text = kw

check_keyword(text) ==
    IF match_keyword(text, Str("shader")) THEN TOKEN_SHADER
    ELSE IF match_keyword(text, Str("uniform")) THEN TOKEN_UNIFORM
    ELSE IF match_keyword(text, Str("input")) THEN TOKEN_INPUT
    ELSE IF match_keyword(text, Str("void")) THEN TOKEN_VOID
    ELSE IF match_keyword(text, Str("out")) THEN TOKEN_OUT
    ELSE IF match_keyword(text, Str("vertex_shader")) THEN TOKEN_VERTEX_SHADER
    ELSE IF match_keyword(text, Str("fragment_shader")) THEN TOKEN_FRAGMENT_SHADER
    ELSE IF match_keyword(text, Str("float")) THEN TOKEN_FLOAT
    ELSE IF match_keyword(text, Str("vec2")) THEN TOKEN_VEC2
    ELSE IF match_keyword(text, Str("vec3")) THEN TOKEN_VEC3
    ELSE IF match_keyword(text, Str("vec4")) THEN TOKEN_VEC4
    ELSE IF match_keyword(text, Str("mat4")) THEN TOKEN_MAT4
    ELSE IF match_keyword(text, Str("sampler2D")) THEN TOKEN_SAMPLER2D
    ELSE IF match_keyword(text, Str("samplerCube")) THEN TOKEN_SAMPLERCUBE
    ELSE TOKEN_IDENTIFIER

\* A token is a view into the source: its type, the offset of its first
\* byte and its length.
Token(type, start, length) == [type |-> type, start |-> start, length |-> length]

\* The bytes a token views.
TokenText(s, t) == SubSeq(s, t.start + 1, t.start + t.length)

\* The end of the run of identifier bytes starting at p: the first offset
\* at which the condition of the loop is false.
scan_alnum(s, p) ==
    CHOOSE e \in p..Len(s) :
        /\ ~(is_alnum(CharAt(s, e)) \/ CharAt(s, e) = "_")
        /\ \A k \in p..(e - 1) : is_alnum(CharAt(s, k)) \/ CharAt(s, k) = "_"

\* The end of the run of digits starting at p.
RECURSIVE scan_digits(_, _)
scan_digits(s, p) == IF is_digit(CharAt(s, p)) THEN scan_digits(s, p + 1) ELSE p

\* The token type of a punctuation byte (the switch of lexer_next);
\* TOKEN_EOF is its default case, an unrecognized byte.
symbol_type(c) ==
    CASE c = "{" -> TOKEN_LBRACE
      [] c = "}" -> TOKEN_RBRACE
      [] c = "(" -> TOKEN_LPAREN
      [] c = ")" -> TOKEN_RPAREN
      [] c = ";" -> TOKEN_SEMICOLON
      [] c = "," -> TOKEN_COMMA
      [] c = "=" -> TOKEN_EQUAL
      [] c = "*" -> TOKEN_ASTERISK
      [] c = "." -> TOKEN_DOT
      [] c = ":" -> TOKEN_COLON
      [] c = "-" -> TOKEN_MINUS
      [] c = "+" -> TOKEN_PLUS
      [] c = "/" -> TOKEN_SLASH
      [] c = "<" -> TOKEN_LT
      [] c = ">" -> TOKEN_GT
      [] c = "&" -> TOKEN_AMPERSAND
      [] c = "|" -> TOKEN_PIPE
      [] c = "!" -> TOKEN_EXCLAMATION
      [] OTHER -> TOKEN_EOF

\* A number whose dot belongs to it only when a digit follows the dot.
scan_fraction_digit_required(s, d) ==
    IF CharAt(s, d) = "." /\ is_digit(CharAt(s, d + 1)) THEN scan_digits(s, d + 1) ELSE d

\* The end of a number whose integer digits end at d: a dot and the digits
\* after it belong to the number.
scan_fraction(s, d) == IF CharAt(s, d) = "." THEN scan_digits(s, d + 1) ELSE d

\* lexer_next: the next token of s from offset p0, and the offset after it.
lexer_next(s, p0) ==
    Bind(skip_whitespace(s, p0), LAMBDA p :
    Bind(CharAt(s, p), LAMBDA c :
    IF p >= Len(s) THEN [tok |-> Token(TOKEN_EOF, p, 0), pos |-> p]
    ELSE IF is_alpha(c) \/ c = "_" THEN
        Bind(scan_alnum(s, p), LAMBDA e :
        [tok |-> Token(check_keyword(SubSeq(s, p + 1, e)), p, e - p), pos |-> e])
    ELSE IF is_digit(c) THEN
        Bind(scan_fraction(s, scan_digits(s, p)), LAMBDA e :
        [tok |-> Token(TOKEN_NUMBER, p, e - p), pos |-> e])
    ELSE [tok |-> Token(symbol_type(c), p, 1), pos |-> p + 1]))

(***************************************************************************)
(* Parser.  The parser state ps holds the lexer offset (pos), the current  *)
(* token (cur), the number of LOG_ERROR lines written so far (errs), the   *)
(* number of heap blocks allocated so far (nalloc) and how the process     *)
(* stands (halt): "run", "exit" after exit(1), "crash" after a store       *)
(* through an invalid pointer.                                             *)
(***************************************************************************)
Ptr(blk, off) == [blk |-> blk, off |-> off]
NULL == Ptr(0, 0)

LogError(ps) == [ps EXCEPT !.errs = @ + 1]
Exit1(ps) == [ps EXCEPT !.halt = "exit"]
Crash(ps) == [ps EXCEPT !.halt = "crash"]

\* What a store through an invalid pointer may do: end the process with a
\* signal, or go unnoticed.
UBOutcomes == {"crash", "lost"}

parser_advance(s, ps) ==
    Bind(lexer_next(s, ps.pos), LAMBDA r : [ps EXCEPT !.cur = r.tok, !.pos = r.pos])

parser_match(s, ps, type) ==
    IF ps.cur.type = type THEN [ok |-> TRUE, ps |-> parser_advance(s, ps)]
    ELSE [ok |-> FALSE, ps |-> ps]

parser_expect(s, ps, type) ==
    Bind(parser_match(s, ps, type), LAMBDA m :
    IF ~m.ok THEN [ok |-> FALSE, ps |-> LogError(m.ps)] ELSE m)

\* token_to_str: a fresh heap copy of the current token's text.
token_to_str(s, ps) ==
    [chars |-> TokenText(s, ps.cur), ptr |-> Ptr(ps.nalloc + 1, 0),
     ps |-> [ps EXCEPT !.nalloc = @ + 1]]

\* strdup of a literal.
strdup(chars, ps) ==
    [chars |-> chars, ptr |-> Ptr(ps.nalloc + 1, 0), ps |-> [ps EXCEPT !.nalloc = @ + 1]]

\* A declaration node: the type and name strings and the pointers to them.
Decl(type, name, tptr, nptr) ==
    [type |-> type, name |-> name, tptr |-> tptr, nptr |-> nptr]
NoDecl == Decl(<<>>, <<>>, NULL, NULL)

\* The NULL result of parse_uniform and parse_input.  The strings freed on a
\* failure path are never referenced again.
NullDecl(ps) == [ok |-> FALSE, node |-> NoDecl, ps |-> ps]

\* parse_uniform: ok is FALSE for the NULL result.
parse_uniform(s, ps) ==
    Bind(parser_expect(s, ps, TOKEN_UNIFORM), LAMBDA e1 :
    IF ~e1.ok THEN NullDecl(e1.ps)
    ELSE IF e1.ps.cur.type < TOKEN_FLOAT \/ e1.ps.cur.type > TOKEN_SAMPLERCUBE
    THEN NullDecl(LogError(e1.ps))
    ELSE
    Bind(token_to_str(s, e1.ps), LAMBDA type :
    Bind(parser_advance(s, type.ps), LAMBDA p2 :
    IF p2.cur.type # TOKEN_IDENTIFIER THEN NullDecl(LogError(p2))
    ELSE
    Bind(token_to_str(s, p2), LAMBDA name :
    Bind(parser_expect(s, parser_advance(s, name.ps), TOKEN_SEMICOLON), LAMBDA e4 :
    IF ~e4.ok THEN NullDecl(e4.ps)
    ELSE [ok |-> TRUE,
          node |-> Decl(type.chars, name.chars, type.ptr, name.ptr),
          ps |-> e4.ps])))))

\* An input parser that also takes a user identifier as the type.
parse_input_any_type(s, ps) ==
    Bind(parser_expect(s, ps, TOKEN_INPUT), LAMBDA e1 :
    IF ~e1.ok THEN NullDecl(e1.ps)
    ELSE IF e1.ps.cur.type \notin TOKEN_FLOAT..TOKEN_SAMPLERCUBE \cup {TOKEN_IDENTIFIER}
    THEN NullDecl(LogError(e1.ps))
    ELSE
    Bind(token_to_str(s, e1.ps), LAMBDA type :
    Bind(parser_advance(s, type.ps), LAMBDA p2 :
    IF p2.cur.type # TOKEN_IDENTIFIER THEN NullDecl(LogError(p2))
    ELSE
    Bind(token_to_str(s, p2), LAMBDA name :
    Bind(parser_expect(s, parser_advance(s, name.ps), TOKEN_SEMICOLON), LAMBDA e4 :
    IF ~e4.ok THEN NullDecl(e4.ps)
    ELSE [ok |-> TRUE,
          node |-> Decl(type.chars, name.chars, type.ptr, name.ptr),
          ps |-> e4.ps])))))

parse_input(s, ps) ==
    Bind(parser_expect(s, ps, TOKEN_INPUT), LAMBDA e1 :
    IF ~e1.ok THEN NullDecl(e1.ps)
    ELSE IF e1.ps.cur.type < TOKEN_FLOAT \/ e1.ps.cur.type > TOKEN_SAMPLERCUBE
    THEN NullDecl(LogError(e1.ps))
    ELSE
    Bind(token_to_str(s, e1.ps), LAMBDA type :
    Bind(parser_advance(s, type.ps), LAMBDA p2 :
    IF p2.cur.type # TOKEN_IDENTIFIER THEN NullDecl(LogError(p2))
    ELSE
    Bind(token_to_str(s, p2), LAMBDA name :
    Bind(parser_expect(s, parser_advance(s, name.ps), TOKEN_SEMICOLON), LAMBDA e4 :
    IF ~e4.ok THEN NullDecl(e4.ps)
    ELSE [ok |-> TRUE,
          node |-> Decl(type.chars, name.chars, type.ptr, name.ptr),
          ps |-> e4.ps])))))

(***************************************************************************)
(* The list append every caller of parse_uniform and parse_input performs: *)
(*     *ptr = node;  ptr = &node->next;                                    *)
(* cursor tells where ptr points: "tail" is the last link of the list;     *)
(* "wild" is &NULL->next, left behind by a NULL node; "detached" is the    *)
(* link of a node that a lost store never linked into the list.  The store *)
(* through a wild cursor is an invalid store, with outcome ub.             *)
(***************************************************************************)
list_append(list, cursor, ok, node, ub) ==
    IF cursor = "wild"
    THEN IF ub = "crash"
         THEN [list |-> list, cursor |-> cursor, crash |-> TRUE]
         ELSE [list |-> list, cursor |-> IF ok THEN "detached" ELSE "wild",
               crash |-> FALSE]
    ELSE [list |-> IF ok /\ cursor = "tail" THEN Append(list, node) ELSE list,
          cursor |-> IF ok THEN cursor ELSE "wild",
          crash |-> FALSE]

\* A statement: text is the C string its text pointer denotes, length its
\* length field, ptr the text pointer.
Statement(text, length, ptr) == [text |-> text, length |-> length, ptr |-> ptr]

\* The brace depth of parse_statement after the token of type t.
brace_depth(t, depth) ==
    IF t = TOKEN_LBRACE THEN depth + 1
    ELSE IF t = TOKEN_RBRACE /\ depth > 0 THEN depth - 1
    ELSE depth

RECURSIVE parse_statement_loop(_, _, _)
parse_statement_loop(s, ps, depth) ==
    IF ps.cur.type # TOKEN_RBRACE /\ ps.cur.type # TOKEN_EOF
    THEN Bind(brace_depth(ps.cur.type, depth), LAMBDA d :
         Bind(parser_advance(s, ps), LAMBDA p1 :
         IF d = 0 /\ (p1.cur.type = TOKEN_RBRACE \/ p1.cur.type = TOKEN_EOF)
         THEN p1
         ELSE parse_statement_loop(s, p1, d)))
    ELSE ps

\* parse_statement: the legacy body, a view into the source buffer (block 1)
\* from the current token on.
parse_statement(s, ps) ==
    Bind(parse_statement_loop(s, ps, 0), LAMBDA p1 :
    [stmt |-> Statement(SubSeq(s, ps.cur.start + 1, Len(s)),
                        p1.cur.start - ps.cur.start, Ptr(1, ps.cur.start)),
     ps |-> p1])

\* A function node.  out_type and out_name are <<>> with a NULL pointer when
\* absent; statements is the one statement every function holds.
Function(name, nptr, is_vertex, is_fragment, out_type, otptr, out_name, onptr, stmt) ==
    [name |-> name, nptr |-> nptr, is_vertex |-> is_vertex, is_fragment |-> is_fragment,
     out_type |-> out_type, otptr |-> otptr, out_name |-> out_name, onptr |-> onptr,
     statements |-> stmt]
NoFunction ==
    Function(<<>>, NULL, FALSE, FALSE, <<>>, NULL, <<>>, NULL, Statement(<<>>, 0, NULL))

\* A function without an output parameter.
NoOut(ps) ==
    [out_type |-> <<>>, otptr |-> NULL, out_name |-> <<>>, onptr |-> NULL, ps |-> ps]

\* The `out <type> <name>` parameter of a legacy fragment function.
parse_function_out(s, ps) ==
    IF ps.cur.type < TOKEN_FLOAT \/ ps.cur.type > TOKEN_MAT4
    THEN NoOut(Exit1(LogError(ps)))
    ELSE
    Bind(token_to_str(s, ps), LAMBDA type :
    Bind(parser_expect(s, parser_advance(s, type.ps), TOKEN_IDENTIFIER), LAMBDA e2 :
    Bind(token_to_str(s, e2.ps), LAMBDA name :
    [out_type |-> type.chars, otptr |-> type.ptr,
     out_name |-> name.chars, onptr |-> name.ptr, ps |-> name.ps])))

\* The optional out parameter of parse_function, tried for a fragment
\* function only.
parse_function_param(s, ps, is_fragment) ==
    IF is_fragment /\ ps.cur.type = TOKEN_OUT
    THEN parse_function_out(s, parser_advance(s, ps))
    ELSE NoOut(ps)

\* parse_function: a legacy `void NAME(...) { ... }`.
parse_function(s, ps) ==
    Bind(parser_expect(s, parser_expect(s, ps, TOKEN_VOID).ps, TOKEN_IDENTIFIER), LAMBDA e2 :
    Bind(token_to_str(s, e2.ps), LAMBDA name :
    Bind(parse_function_param(s, parser_expect(s, name.ps, TOKEN_LPAREN).ps,
                              name.chars = Str("fragment")), LAMBDA o :
    IF o.ps.halt # "run" THEN [fn |-> NoFunction, ps |-> o.ps]
    ELSE
    Bind(parse_statement(s, parser_expect(s, parser_expect(s, o.ps, TOKEN_RPAREN).ps,
                                          TOKEN_LBRACE).ps), LAMBDA st :
    [fn |-> Function(name.chars, name.ptr, name.chars = Str("vertex"),
                     name.chars = Str("fragment"),
                     o.out_type, o.otptr, o.out_name, o.onptr, st.stmt),
     ps |-> parser_expect(s, st.ps, TOKEN_RBRACE).ps]))))

(***************************************************************************)
(* Body transformer (parse_function_body_to_glsl).  The loop state b holds *)
(* the output buffer filled so far (body; body_pos is its length), the     *)
(* brace depth and the previous copied token type.                         *)
(***************************************************************************)
BODY_CAPACITY == 4096
BODY_LIMIT == 4090

OperatorTokens == {TOKEN_EQUAL, TOKEN_PLUS, TOKEN_MINUS, TOKEN_ASTERISK,
                   TOKEN_SLASH, TOKEN_LT, TOKEN_GT}

\* A transformer that puts a space before every token but the first.
add_space_always(prev, cur) == prev # TOKEN_EOF

\* Whether a space goes before the token of type cur that follows prev.
add_space_before(prev, cur) ==
    IF prev = TOKEN_EOF THEN FALSE
    ELSE IF cur = TOKEN_EQUAL /\ prev \in {TOKEN_PLUS, TOKEN_MINUS, TOKEN_ASTERISK, TOKEN_SLASH}
    THEN FALSE
    ELSE IF cur \in OperatorTokens THEN TRUE
    ELSE IF prev \in OperatorTokens THEN TRUE
    ELSE IF prev = TOKEN_IDENTIFIER /\ cur = TOKEN_IDENTIFIER THEN TRUE
    ELSE IF (prev >= TOKEN_FLOAT /\ prev <= TOKEN_SAMPLERCUBE) /\ cur = TOKEN_IDENTIFIER
    THEN TRUE
    ELSE IF prev = TOKEN_COMMA THEN TRUE
    ELSE FALSE

\* The bytes copied for the current token.
copy_token(s, tok) ==
    IF tok.type = TOKEN_IDENTIFIER \/ tok.type = TOKEN_NUMBER THEN TokenText(s, tok)
    ELSE Bind(token_type_str(tok.type), LAMBDA token_str :
         IF Len(token_str) = 1 THEN <<token_str[1]>> ELSE TokenText(s, tok))

\* `if (p->current.type == type) parser_advance(p);`
advance_if(s, ps, type) == IF ps.cur.type = type THEN parser_advance(s, ps) ELSE ps

\* An out declaration whose semantic is not skipped.
keep_semantic(s, ps) == ps

\* The optional `: SEMANTIC` after an out declaration's name.
skip_semantic(s, ps) ==
    IF ps.cur.type = TOKEN_COLON
    THEN advance_if(s, parser_advance(s, ps), TOKEN_IDENTIFIER)
    ELSE ps

\* The loop state b with its buffer replaced.
with_body(b, body) == [b EXCEPT !.body = body]

\* The `out` branch for a vertex function, p1 at the type: the declaration
\* is copied as `out <type> <name>;`.
body_out_vertex(s, p1, b) ==
    Bind(b.body \o Str("out ") \o TokenText(s, p1.cur) \o Str(" "), LAMBDA b1 :
    Bind(parser_advance(s, p1), LAMBDA p2 :
    IF p2.cur.type # TOKEN_IDENTIFIER
    THEN [b |-> with_body(b, b1), ps |-> Exit1(LogError(p2))]
    ELSE [b |-> with_body(b, b1 \o TokenText(s, p2.cur) \o Str(";\n")),
          ps |-> advance_if(s, skip_semantic(s, parser_advance(s, p2)),
                            TOKEN_SEMICOLON)]))

\* A fragment branch that copies the declaration as the vertex branch does.
body_out_fragment_copied(s, p1, b) == body_out_vertex(s, p1, b)

\* The `out` branch for a fragment function, p1 at the type: the
\* declaration is skipped.
body_out_fragment(s, p1, b) ==
    [b |-> b,
     ps |-> advance_if(s, skip_semantic(s, advance_if(s, parser_advance(s, p1),
                                                      TOKEN_IDENTIFIER)),
                       TOKEN_SEMICOLON)]

\* The branch for an `out` token.
body_out(s, ps, is_vertex, b) ==
    Bind(parser_advance(s, ps), LAMBDA p1 :
    IF p1.cur.type < TOKEN_FLOAT \/ p1.cur.type > TOKEN_SAMPLERCUBE
    THEN [b |-> b, ps |-> Exit1(LogError(p1))]
    ELSE IF is_vertex THEN body_out_vertex(s, p1, b)
    ELSE body_out_fragment(s, p1, b))

\* The branch for any other token: spacing, the copy, the line break after
\* a semicolon.
body_copy(s, ps, b) ==
    [b |-> [b EXCEPT !.body = @ \o (IF add_space_before(b.prev, ps.cur.type)
                                    THEN Str(" ") ELSE <<>>)
                                \o copy_token(s, ps.cur)
                                \o (IF ps.cur.type = TOKEN_SEMICOLON
                                    THEN Str("\n    ") ELSE <<>>),
                     !.prev = ps.cur.type],
     ps |-> parser_advance(s, ps)]

\* One iteration of the loop.
body_step(s, ps, is_vertex, b) ==
    IF ps.cur.type = TOKEN_LBRACE
    THEN [b |-> [b EXCEPT !.depth = @ + 1, !.body = @ \o Str("{")],
          ps |-> parser_advance(s, ps)]
    ELSE IF ps.cur.type = TOKEN_RBRACE
    THEN IF b.depth > 0
         THEN [b |-> [b EXCEPT !.depth = @ - 1, !.body = @ \o Str("}")],
               ps |-> parser_advance(s, ps)]
         ELSE [b |-> b, ps |-> ps]
    ELSE IF ps.cur.type = TOKEN_OUT THEN body_out(s, ps, is_vertex, b)
    ELSE body_copy(s, ps, b)

\* The loop: it runs while the current token is neither `}` nor end of
\* input.  Bytes stored past the buffer's capacity are an invalid store.
RECURSIVE body_loop(_, _, _, _, _)
body_loop(s, ps, is_vertex, b, ub) ==
    IF ps.cur.type # TOKEN_RBRACE /\ ps.cur.type # TOKEN_EOF
    THEN Bind(body_step(s, ps, is_vertex, b), LAMBDA r :
         IF r.ps.halt # "run" THEN r
         ELSE IF Len(r.b.body) > BODY_CAPACITY /\ ub = "crash"
         THEN [b |-> r.b, ps |-> Crash(r.ps)]
         ELSE IF Len(r.b.body) >= BODY_LIMIT
         THEN [b |-> r.b, ps |-> Exit1(LogError(r.ps))]
         ELSE body_loop(s, r.ps, is_vertex, r.b, ub))
    ELSE [b |-> b, ps |-> ps]

\* parse_function_body_to_glsl: the transformed text, in a fresh heap block.
parse_function_body_to_glsl(s, ps, is_vertex, ub) ==
    Bind(body_loop(s, [ps EXCEPT !.nalloc = @ + 1], is_vertex,
                   [body |-> <<>>, depth |-> 0, prev |-> TOKEN_EOF], ub), LAMBDA r :
    [body |-> r.b.body, ptr |-> Ptr(ps.nalloc + 1, 0), ps |-> r.ps])

\* The optional `: SEMANTIC` of a parameter.
param_semantic(s, ps) ==
    IF ps.cur.type = TOKEN_COLON
    THEN parser_expect(s, parser_advance(s, ps), TOKEN_IDENTIFIER).ps
    ELSE ps

\* The parameter list loop of parse_new_function.
RECURSIVE param_loop(_, _)
param_loop(s, ps) ==
    IF ps.cur.type # TOKEN_RPAREN /\ ps.cur.type # TOKEN_EOF
    THEN IF ps.cur.type \in {TOKEN_FLOAT, TOKEN_VEC2, TOKEN_VEC3, TOKEN_VEC4, TOKEN_MAT4,
                             TOKEN_SAMPLER2D, TOKEN_SAMPLERCUBE, TOKEN_IDENTIFIER}
         THEN Bind(param_semantic(s, parser_expect(s, parser_advance(s, ps),
                                                   TOKEN_IDENTIFIER).ps), LAMBDA p3 :
              IF p3.cur.type = TOKEN_COMMA THEN param_loop(s, parser_advance(s, p3))
              ELSE IF p3.cur.type = TOKEN_RPAREN THEN p3
              ELSE Exit1(LogError(p3)))
         ELSE Exit1(LogError(ps))
    ELSE ps

\* The name of a new-style function, p1 after the keyword: the identifier
\* that follows it, or a copy of "vertex" or "fragment".
new_function_name(s, p1, is_vertex) ==
    IF p1.cur.type = TOKEN_IDENTIFIER
    THEN Bind(token_to_str(s, p1), LAMBDA n :
         [chars |-> n.chars, ptr |-> n.ptr, ps |-> parser_advance(s, n.ps)])
    ELSE strdup(IF is_vertex THEN Str("vertex") ELSE Str("fragment"), p1)

\* A parser of new-style functions that tags every function with both
\* stages.
parse_new_function_both_stages(s, ps, ub) ==
    Bind(ps.cur.type, LAMBDA function_type :
    Bind(new_function_name(s, parser_advance(s, ps),
                           function_type = TOKEN_VERTEX_SHADER), LAMBDA name :
    Bind(param_loop(s, parser_expect(s, name.ps, TOKEN_LPAREN).ps), LAMBDA p3 :
    IF p3.halt # "run" THEN [fn |-> NoFunction, ps |-> p3]
    ELSE
    Bind(parse_function_body_to_glsl(
             s, parser_expect(s, parser_expect(s, p3, TOKEN_RPAREN).ps, TOKEN_LBRACE).ps,
             function_type = TOKEN_VERTEX_SHADER, ub), LAMBDA body_glsl :
    IF body_glsl.ps.halt # "run" THEN [fn |-> NoFunction, ps |-> body_glsl.ps]
    ELSE [fn |-> Function(name.chars, name.ptr,
                          TRUE, TRUE,
                          <<>>, NULL, <<>>, NULL,
                          Statement(body_glsl.body, Len(body_glsl.body), body_glsl.ptr)),
          ps |-> parser_expect(s, body_glsl.ps, TOKEN_RBRACE).ps]))))

\* parse_new_function: `vertex_shader [NAME] (params) { body }` or the same
\* with fragment_shader.
parse_new_function(s, ps, ub) ==
    Bind(ps.cur.type, LAMBDA function_type :
    Bind(new_function_name(s, parser_advance(s, ps),
                           function_type = TOKEN_VERTEX_SHADER), LAMBDA name :
    Bind(param_loop(s, parser_expect(s, name.ps, TOKEN_LPAREN).ps), LAMBDA p3 :
    IF p3.halt # "run" THEN [fn |-> NoFunction, ps |-> p3]
    ELSE
    Bind(parse_function_body_to_glsl(
             s, parser_expect(s, parser_expect(s, p3, TOKEN_RPAREN).ps, TOKEN_LBRACE).ps,
             function_type = TOKEN_VERTEX_SHADER, ub), LAMBDA body_glsl :
    IF body_glsl.ps.halt # "run" THEN [fn |-> NoFunction, ps |-> body_glsl.ps]
    ELSE [fn |-> Function(name.chars, name.ptr,
                          function_type = TOKEN_VERTEX_SHADER,
                          function_type = TOKEN_FRAGMENT_SHADER,
                          <<>>, NULL, <<>>, NULL,
                          Statement(body_glsl.body, Len(body_glsl.body), body_glsl.ptr)),
          ps |-> parser_expect(s, body_glsl.ps, TOKEN_RBRACE).ps]))))

(***************************************************************************)
(* Shader blocks.  A shader node holds its name, its lists, and which      *)
(* parser built it (standalone), which the C struct does not record.       *)
(***************************************************************************)
Shader(name, nptr, uniforms, inputs, functions, standalone) ==
    [name |-> name, nptr |-> nptr, uniforms |-> uniforms, inputs |-> inputs,
     functions |-> functions, standalone |-> standalone]
NoShader == Shader(<<>>, NULL, <<>>, <<>>, <<>>, FALSE)

\* `*uptr = u; uptr = &u->next;` in a block parser whose loop state is st.
append_uniform(st, u, ub) ==
    Bind(list_append(st.uniforms, st.uptr, u.ok, u.node, ub), LAMBDA a :
    [st EXCEPT !.ps = IF a.crash THEN Crash(u.ps) ELSE u.ps,
               !.uniforms = a.list, !.uptr = a.cursor])

\* `*iptr = in; iptr = &in->next;` in a block parser whose loop state is st.
append_input(st, in, ub) ==
    Bind(list_append(st.inputs, st.iptr, in.ok, in.node, ub), LAMBDA a :
    [st EXCEPT !.ps = IF a.crash THEN Crash(in.ps) ELSE in.ps,
               !.inputs = a.list, !.iptr = a.cursor])

\* `*fptr = fn; fptr = &fn->next;` in parse_shader, which is left at once
\* when the function parser ended the process.
append_function(st, f) ==
    IF f.ps.halt # "run" THEN [st EXCEPT !.ps = f.ps]
    ELSE [st EXCEPT !.ps = f.ps, !.functions = Append(@, f.fn)]

\* The loop of parse_shader over the members of a legacy block; st holds
\* the parser state, the three lists and the cursors of the two declaration
\* lists.
RECURSIVE shader_loop(_, _, _)
shader_loop(s, st, ub) ==
    IF st.ps.halt = "run" /\ st.ps.cur.type # TOKEN_RBRACE /\ st.ps.cur.type # TOKEN_EOF
    THEN IF st.ps.cur.type = TOKEN_UNIFORM
         THEN shader_loop(s, append_uniform(st, parse_uniform(s, st.ps), ub), ub)
         ELSE IF st.ps.cur.type = TOKEN_INPUT
         THEN shader_loop(s, append_input(st, parse_input(s, st.ps), ub), ub)
         ELSE IF st.ps.cur.type = TOKEN_VOID
         THEN shader_loop(s, append_function(st, parse_function(s, st.ps)), ub)
         ELSE [st EXCEPT !.ps = Exit1(LogError(st.ps))]
    ELSE st

\* parse_shader: a legacy `shader NAME { ... }` block.
parse_shader(s, ps, ub) ==
    Bind(token_to_str(s, parser_expect(s, parser_expect(s, ps, TOKEN_SHADER).ps,
                                       TOKEN_IDENTIFIER).ps), LAMBDA name :
    Bind(shader_loop(s, [ps |-> parser_expect(s, name.ps, TOKEN_LBRACE).ps,
                         uniforms |-> <<>>, inputs |-> <<>>, functions |-> <<>>,
                         uptr |-> "tail", iptr |-> "tail"], ub), LAMBDA st :
    IF st.ps.halt # "run" THEN [shader |-> NoShader, ps |-> st.ps]
    ELSE [shader |-> Shader(name.chars, name.ptr, st.uniforms, st.inputs,
                            st.functions, FALSE),
          ps |-> parser_expect(s, st.ps, TOKEN_RBRACE).ps]))

\* The loop of parse_standalone_shader over the declarations before the
\* function.
RECURSIVE standalone_loop(_, _, _)
standalone_loop(s, st, ub) ==
    IF st.ps.halt = "run"
       /\ (st.ps.cur.type = TOKEN_UNIFORM \/ st.ps.cur.type = TOKEN_INPUT)
    THEN IF st.ps.cur.type = TOKEN_UNIFORM
         THEN standalone_loop(s, append_uniform(st, parse_uniform(s, st.ps), ub), ub)
         ELSE standalone_loop(s, append_input(st, parse_input(s, st.ps), ub), ub)
    ELSE st

\* parse_standalone_shader: a shader named after the keyword of its one
\* function.
parse_standalone_shader(s, ps, ub) ==
    Bind(strdup(IF ps.cur.type = TOKEN_VERTEX_SHADER
                THEN Str("vertex") ELSE Str("fragment"), ps), LAMBDA name :
    Bind(standalone_loop(s, [ps |-> name.ps, uniforms |-> <<>>, inputs |-> <<>>,
                             uptr |-> "tail", iptr |-> "tail"], ub), LAMBDA st :
    IF st.ps.halt # "run" THEN [shader |-> NoShader, ps |-> st.ps]
    ELSE
    Bind(parse_new_function(s, st.ps, ub), LAMBDA f :
    IF f.ps.halt # "run" THEN [shader |-> NoShader, ps |-> f.ps]
    ELSE [shader |-> Shader(name.chars, name.ptr, st.uniforms, st.inputs,
                            <<f.fn>>, TRUE),
          ps |-> f.ps])))

\* copy_uniform_list and copy_input_list: new nodes holding the pointers of
\* the nodes they copy.
copy_uniform_list(src) ==
    IF src = <<>> THEN <<>>
    ELSE [i \in 1..Len(src) |->
            Decl(src[i].type, src[i].name, src[i].tptr, src[i].nptr)]

copy_input_list(src) ==
    IF src = <<>> THEN <<>>
    ELSE [i \in 1..Len(src) |->
            Decl(src[i].type, src[i].name, src[i].tptr, src[i].nptr)]

(***************************************************************************)
(* Code generation.  The file system is a function from a path to the      *)
(* bytes of the file at that path.                                         *)
(***************************************************************************)
PATH_SIZE == 256

\* snprintf into a buffer of size bytes: the text cut to size - 1 bytes.
snprintf(size, text) ==
    IF Len(text) > size - 1 THEN SubSeq(text, 1, size - 1) ELSE text

\* printf's %d of a number that is not negative.
RECURSIVE format_d(_)
format_d(n) ==
    LET d == <<"0", "1", "2", "3", "4", "5", "6", "7", "8", "9">>[(n % 10) + 1] IN
    IF n < 10 THEN <<d>> ELSE format_d(n \div 10) \o <<d>>

\* fopen(path, "w"), the writes, fclose: the file holds exactly text.
write_file(fs, path, text) == (path :> text) @@ fs

write_glsl_header ==
    Str("#version 330 core\n") \o Str("precision highp float;\n\n")

RECURSIVE write_uniforms_loop(_, _)
write_uniforms_loop(uniforms, i) ==
    IF i > Len(uniforms) THEN <<>>
    ELSE Str("uniform ") \o uniforms[i].type \o Str(" ") \o uniforms[i].name \o Str(";\n")
         \o write_uniforms_loop(uniforms, i + 1)

write_uniforms(uniforms) ==
    write_uniforms_loop(uniforms, 1) \o (IF uniforms # <<>> THEN Str("\n") ELSE <<>>)

\* A loop that gives every input the location it started with.
RECURSIVE write_inputs_loop_same_location(_, _, _, _)
write_inputs_loop_same_location(inputs, is_vertex, i, location) ==
    IF i > Len(inputs) THEN <<>>
    ELSE IF is_vertex
    THEN Str("layout(location = ") \o format_d(location) \o Str(") in ")
         \o inputs[i].type \o Str(" ") \o inputs[i].name \o Str(";\n")
         \o write_inputs_loop_same_location(inputs, is_vertex, i + 1, location)
    ELSE Str("in ") \o inputs[i].type \o Str(" ") \o inputs[i].name \o Str(";\n")
         \o write_inputs_loop_same_location(inputs, is_vertex, i + 1, location)

\* The loop of write_inputs; location is the counter the loop increments.
RECURSIVE write_inputs_loop(_, _, _, _)
write_inputs_loop(inputs, is_vertex, i, location) ==
    IF i > Len(inputs) THEN <<>>
    ELSE IF is_vertex
    THEN Str("layout(location = ") \o format_d(location) \o Str(") in ")
         \o inputs[i].type \o Str(" ") \o inputs[i].name \o Str(";\n")
         \o write_inputs_loop(inputs, is_vertex, i + 1, location + 1)
    ELSE Str("in ") \o inputs[i].type \o Str(" ") \o inputs[i].name \o Str(";\n")
         \o write_inputs_loop(inputs, is_vertex, i + 1, location)

write_inputs(inputs, is_vertex) ==
    write_inputs_loop(inputs, is_vertex, 1, 0)
    \o (IF inputs # <<>> THEN Str("\n") ELSE <<>>)

\* Fragment inputs without the texture coordinate.
write_two_fragment_inputs ==
    Str("in vec3 v_normal;\n") \o Str("in vec3 v_position;\n") \o Str("\n")

write_vertex_outputs_as_fragment_inputs ==
    Str("in vec3 v_normal;\n") \o Str("in vec3 v_position;\n")
    \o Str("in vec2 v_texCoord;\n") \o Str("\n")

write_function(fn) ==
    IF fn.is_vertex
    THEN Str("void main() {\n") \o fn.statements.text \o Str("}\n")
    ELSE IF fn.is_fragment
    THEN Str("out vec4 fragColor;\n\n") \o Str("void main() {\n")
         \o fn.statements.text \o Str("}\n")
    ELSE <<>>

\* A loop that keeps the first function found for each stage.
RECURSIVE find_first_functions(_, _, _, _)
find_first_functions(functions, i, vertex_fn, fragment_fn) ==
    IF i > Len(functions) THEN [vertex_fn |-> vertex_fn, fragment_fn |-> fragment_fn]
    ELSE find_first_functions(functions, i + 1,
                              IF functions[i].is_vertex /\ vertex_fn = 0
                              THEN i ELSE vertex_fn,
                              IF functions[i].is_fragment /\ fragment_fn = 0
                              THEN i ELSE fragment_fn)

\* The loop of generate_glsl that finds the stage functions: the indices of
\* the functions vertex_fn and fragment_fn point to, 0 for NULL.
RECURSIVE find_functions(_, _, _, _)
find_functions(functions, i, vertex_fn, fragment_fn) ==
    IF i > Len(functions) THEN [vertex_fn |-> vertex_fn, fragment_fn |-> fragment_fn]
    ELSE find_functions(functions, i + 1,
                        IF functions[i].is_vertex THEN i ELSE vertex_fn,
                        IF functions[i].is_fragment THEN i ELSE fragment_fn)

\* What fopen may fail on in one pass of main's generation loop.
FopenFailures == {"none", "vert", "frag", "meta"}

\* A generator that leaves the GLSL files for later and writes nothing.
generate_glsl_deferred(shader, output_path, fs, fail) == [fs |-> fs, exit |-> FALSE]

\* generate_glsl: the file system after it, and whether it called exit(1)
\* because the fopen named by fail failed.
generate_glsl(shader, output_path, fs, fail) ==
    LET vert_path == snprintf(PATH_SIZE, output_path \o Str(".vert.glsl"))
        frag_path == snprintf(PATH_SIZE, output_path \o Str(".frag.glsl"))
        found == find_functions(shader.functions, 1, 0, 0)
        vert_text == write_glsl_header \o write_uniforms(shader.uniforms)
                     \o write_inputs(shader.inputs, TRUE)
                     \o write_function(shader.functions[found.vertex_fn])
        frag_text == write_glsl_header \o write_uniforms(shader.uniforms)
                     \o write_vertex_outputs_as_fragment_inputs
                     \o write_function(shader.functions[found.fragment_fn])
        fs1 == IF found.vertex_fn # 0 THEN write_file(fs, vert_path, vert_text) ELSE fs
        fs2 == IF found.fragment_fn # 0 THEN write_file(fs1, frag_path, frag_text) ELSE fs1
    IN  IF found.vertex_fn # 0 /\ fail = "vert" THEN [fs |-> fs, exit |-> TRUE]
        ELSE IF found.fragment_fn # 0 /\ fail = "frag" THEN [fs |-> fs1, exit |-> TRUE]
        ELSE [fs |-> fs2, exit |-> FALSE]

RECURSIVE metadata_uniforms(_, _)
metadata_uniforms(uniforms, i) ==
    IF i > Len(uniforms) THEN <<>>
    ELSE Str("uniform ") \o uniforms[i].type \o Str(" ") \o uniforms[i].name \o Str("\n")
         \o metadata_uniforms(uniforms, i + 1)

RECURSIVE metadata_inputs(_, _)
metadata_inputs(inputs, i) ==
    IF i > Len(inputs) THEN <<>>
    ELSE Str("input ") \o inputs[i].type \o Str(" ") \o inputs[i].name \o Str("\n")
         \o metadata_inputs(inputs, i + 1)

\* A manifest writer whose count lines hold the lengths of the lists.
generate_metadata_counted(shader, output_path, fs, fail) ==
    IF fail = "meta" THEN [fs |-> fs, exit |-> TRUE]
    ELSE [fs |-> write_file(fs, snprintf(PATH_SIZE, output_path \o Str(".meta")),
                            Str("shader ") \o shader.name \o Str("\n")
                            \o Str("uniforms ") \o format_d(Len(shader.uniforms))
                            \o Str("\n") \o metadata_uniforms(shader.uniforms, 1)
                            \o Str("inputs ") \o format_d(Len(shader.inputs))
                            \o Str("\n") \o metadata_inputs(shader.inputs, 1)),
          exit |-> FALSE]

generate_metadata(shader, output_path, fs, fail) ==
    LET meta_path == snprintf(PATH_SIZE, output_path \o Str(".meta"))
        text == Str("shader ") \o shader.name \o Str("\n")
                \o Str("uniforms ") \o format_d(0) \o Str("\n")
                \o metadata_uniforms(shader.uniforms, 1)
                \o Str("inputs ") \o format_d(0) \o Str("\n")
                \o metadata_inputs(shader.inputs, 1)
    IN  IF fail = "meta" THEN [fs |-> fs, exit |-> TRUE]
        ELSE [fs |-> write_file(fs, meta_path, text), exit |-> FALSE]

\* The path main builds for a shader: argv[1], an underscore, its name.
output_path_of(argv1, shader) ==
    snprintf(PATH_SIZE, argv1 \o Str("_") \o shader.name)

(***************************************************************************)
(* Cleanup.  free(p) is valid for the start of a live heap block and for   *)
(* NULL; anything else (a pointer into a block, a block already freed) is  *)
(* an invalid free.                                                        *)
(***************************************************************************)
RECURSIVE decl_pointers(_, _)
decl_pointers(list, i) ==
    IF i > Len(list) THEN <<>>
    ELSE <<list[i].tptr, list[i].nptr>> \o decl_pointers(list, i + 1)

RECURSIVE function_pointers(_, _)
function_pointers(functions, i) ==
    IF i > Len(functions) THEN <<>>
    ELSE <<functions[i].nptr, functions[i].otptr, functions[i].onptr,
           functions[i].statements.ptr>>
         \o function_pointers(functions, i + 1)

\* The pointers cleanup_shader passes to free, in order.
cleanup_shader(shader) ==
    <<shader.nptr>> \o decl_pointers(shader.uniforms, 1)
    \o decl_pointers(shader.inputs, 1) \o function_pointers(shader.functions, 1)

\* free of each pointer of ptrs in turn: the blocks freed, and whether any
\* free was invalid.
RECURSIVE free_all(_, _, _, _)
free_all(ptrs, i, fr, invalid) ==
    IF i > Len(ptrs) THEN [freed |-> fr, invalid |-> invalid]
    ELSE IF ptrs[i] = NULL THEN free_all(ptrs, i + 1, fr, invalid)
    ELSE IF ptrs[i].off # 0 \/ ptrs[i].blk \in fr
    THEN free_all(ptrs, i + 1, fr, TRUE)
    ELSE free_all(ptrs, i + 1, fr \cup {ptrs[i].blk}, invalid)

(***************************************************************************)
(* The runtime loader's file loading step.                                 *)
(***************************************************************************)
\* read_file: whether the file can be opened.
read_file(fs, path) == path \in DOMAIN fs

\* fx_load up to its check of the two sources: TRUE when both were read.
fx_load(fs, shader_name) ==
    LET vert_path == snprintf(PATH_SIZE, shader_name \o Str(".vert.glsl"))
        frag_path == snprintf(PATH_SIZE, shader_name \o Str(".frag.glsl"))
    IN  read_file(fs, vert_path) /\ read_file(fs, frag_path)

(***************************************************************************)
(* The source files the model compiles: some top-level declarations, then  *)
(* up to MaxBlocks shader blocks.                                          *)
(***************************************************************************)
MaxBlocks == 2

Preambles ==
    { Str(""),
      Str("uniform mat4 mvp; input vec3 position; "),
      Str("uniform vec3 a "),
      Str("input vec3 a input vec3 b; ") }

LegacyVertexBlock ==
    Str("shader S { uniform vec3 color; input vec3 position; void vertex(){ gl_Position = float4(position,1.0); } } ")
LegacyStagesBlock ==
    Str("shader A { input vec2 uv; void a vertex(){ out vec3 v_color; x = 1.0; } void b vertex(){ y = 2.0; } void f fragment(){ z = 3.0; } void g fragment(){ w = 4.0; } } ")
LegacyFragmentBlock ==
    Str("shader T { void fragment(out vec4 c) { c = vec4(1.0); } } ")
ModernVertexBlock ==
    Str("vertex_shader(vec3 position : POSITION){ gl_Position = mvp * vec4(position, 1.0); } ")
ModernFragmentBlock ==
    Str("fragment_shader(vec3 n : NORMAL) { out vec4 c : SV_Target; fragColor = vec4(n, 1.0); } ")
ModernNamelessParamBlock ==
    Str("vertex_shader(vec3){ out vec3 v_normal : NORMAL; v_normal = n; } ")
StraySemicolon == Str("; ")
UnknownByte == Str("# ")

Blocks ==
    { LegacyVertexBlock, LegacyStagesBlock, LegacyFragmentBlock, ModernVertexBlock,
      ModernFragmentBlock, ModernNamelessParamBlock, StraySemicolon, UnknownByte }

RECURSIVE Flatten(_)
Flatten(seqs) == IF seqs = <<>> THEN <<>> ELSE Head(seqs) \o Flatten(Tail(seqs))

Sources ==
    { pre \o Flatten(bs) :
        pre \in Preambles, bs \in UNION { [1..k -> Blocks] : k \in 0..MaxBlocks } }

\* argv[1].
Argv1 == Str("t.fx")

(***************************************************************************)
(* The compiler process (main) and, after it, the runtime's fx_load.       *)
(***************************************************************************)
VARIABLES
    src,               \* the bytes read from the input file (heap block 1)
    pc,                \* where main stands
    ps,                \* the parser state
    shaders,           \* the list parse_shader_file builds
    pending_uniforms,  \* the top-level uniform declarations
    pending_inputs,    \* the top-level input declarations
    uptr, iptr,        \* the append cursors of the two pending lists
    files,             \* the file system
    cur_shader,        \* the index of the shader main's loop stands at
    freed,             \* the heap blocks freed so far
    exit_code,         \* -1 while running; 139 stands for death by a signal
    loaded             \* the basename fx_load was called with and its result

vars == <<src, pc, ps, shaders, pending_uniforms, pending_inputs, uptr, iptr, files,
          cur_shader, freed, exit_code, loaded>>

NotLoaded == [name |-> <<>>, result |-> "none"]

\* The parser state main starts from.
StartState ==
    [pos |-> 0, cur |-> Token(TOKEN_EOF, 0, 0), errs |-> 0, nalloc |-> 1, halt |-> "run"]

\* The state main hands to parse_shader_file: the file is read, the lexer
\* initialised, no token loaded yet.
InitOn(s) ==
    /\ src = s
    /\ pc = "parse_begin"
    /\ ps = StartState
    /\ shaders = <<>>
    /\ pending_uniforms = <<>>
    /\ pending_inputs = <<>>
    /\ uptr = "tail"
    /\ iptr = "tail"
    /\ files = <<>>
    /\ cur_shader = 0
    /\ freed = {}
    /\ exit_code = -1
    /\ loaded = NotLoaded

Init == \E s \in Sources : InitOn(s)

\* The process ends inside the parser: exit(1), or a signal.
Halted(p) ==
    /\ ps' = p
    /\ pc' = IF p.halt = "exit" THEN "exited" ELSE "crashed"
    /\ exit_code' = IF p.halt = "exit" THEN 1 ELSE 139

\* parse_shader_file up to its loop: the first token is loaded.
LoadFirstToken ==
    /\ pc = "parse_begin"
    /\ ps' = parser_advance(src, ps)
    /\ pc' = "parse"
    /\ UNCHANGED <<src, shaders, pending_uniforms, pending_inputs, uptr, iptr, files,
                   cur_shader, freed, exit_code, loaded>>

\* A pass at a `shader` token that gives the block the pending lists, as a
\* standalone shader is given them.
TopShaderWithPending ==
    /\ pc = "parse"
    /\ ps.cur.type = TOKEN_SHADER
    /\ \E ub \in UBOutcomes : \E r \in {parse_shader(src, ps, ub)} :
         IF r.ps.halt # "run"
         THEN Halted(r.ps) /\ UNCHANGED shaders
         ELSE /\ ps' = r.ps
              /\ shaders' = Append(shaders,
                     [r.shader EXCEPT
                        !.uniforms = IF pending_uniforms # <<>>
                                     THEN copy_uniform_list(pending_uniforms) ELSE @,
                        !.inputs = IF pending_inputs # <<>>
                                   THEN copy_input_list(pending_inputs) ELSE @])
              /\ UNCHANGED <<pc, exit_code>>
    /\ UNCHANGED <<src, pending_uniforms, pending_inputs, uptr, iptr, files, cur_shader,
                   freed, loaded>>

\* One pass of the loop of parse_shader_file at a `shader` token.
TopShader ==
    /\ pc = "parse"
    /\ ps.cur.type = TOKEN_SHADER
    /\ \E ub \in UBOutcomes : \E r \in {parse_shader(src, ps, ub)} :
         IF r.ps.halt # "run"
         THEN Halted(r.ps) /\ UNCHANGED shaders
         ELSE /\ ps' = r.ps
              /\ shaders' = Append(shaders, r.shader)
              /\ UNCHANGED <<pc, exit_code>>
    /\ UNCHANGED <<src, pending_uniforms, pending_inputs, uptr, iptr, files, cur_shader,
                   freed, loaded>>

\* One pass at a top-level `uniform` token.
TopUniform ==
    /\ pc = "parse"
    /\ ps.cur.type = TOKEN_UNIFORM
    /\ \E ub \in UBOutcomes : \E u \in {parse_uniform(src, ps)} :
       \E a \in {list_append(pending_uniforms, uptr, u.ok, u.node, ub)} :
         /\ pending_uniforms' = a.list
         /\ uptr' = a.cursor
         /\ IF a.crash THEN Halted(Crash(u.ps))
            ELSE ps' = u.ps /\ UNCHANGED <<pc, exit_code>>
    /\ UNCHANGED <<src, shaders, pending_inputs, iptr, files, cur_shader, freed, loaded>>

\* One pass at a top-level `input` token.
TopInput ==
    /\ pc = "parse"
    /\ ps.cur.type = TOKEN_INPUT
    /\ \E ub \in UBOutcomes : \E in \in {parse_input(src, ps)} :
       \E a \in {list_append(pending_inputs, iptr, in.ok, in.node, ub)} :
         /\ pending_inputs' = a.list
         /\ iptr' = a.cursor
         /\ IF a.crash THEN Halted(Crash(in.ps))
            ELSE ps' = in.ps /\ UNCHANGED <<pc, exit_code>>
    /\ UNCHANGED <<src, shaders, pending_uniforms, uptr, files, cur_shader, freed, loaded>>

\* A standalone shader left with the lists its own parser gave it.
without_pending(shader, uniforms, inputs) == shader

\* The lists of a standalone shader after parse_shader_file has put copies
\* of the non-empty pending lists in place of its own.
with_pending(shader, uniforms, inputs) ==
    [shader EXCEPT
       !.uniforms = IF uniforms # <<>> THEN copy_uniform_list(uniforms) ELSE @,
       !.inputs = IF inputs # <<>> THEN copy_input_list(inputs) ELSE @]

\* One pass at a `vertex_shader` or `fragment_shader` token: the standalone
\* shader, then the copies of the pending lists put in place of its own.
TopStandalone ==
    /\ pc = "parse"
    /\ ps.cur.type = TOKEN_VERTEX_SHADER \/ ps.cur.type = TOKEN_FRAGMENT_SHADER
    /\ \E ub \in UBOutcomes : \E r \in {parse_standalone_shader(src, ps, ub)} :
         IF r.ps.halt # "run"
         THEN Halted(r.ps) /\ UNCHANGED shaders
         ELSE /\ ps' = r.ps
              /\ shaders' = Append(shaders, with_pending(r.shader, pending_uniforms,
                                                         pending_inputs))
              /\ UNCHANGED <<pc, exit_code>>
    /\ UNCHANGED <<src, pending_uniforms, pending_inputs, uptr, iptr, files, cur_shader,
                   freed, loaded>>

\* One pass at any other token: the error and exit(1).
TopUnexpected ==
    /\ pc = "parse"
    /\ ps.cur.type \notin {TOKEN_EOF, TOKEN_SHADER, TOKEN_UNIFORM, TOKEN_INPUT,
                           TOKEN_VERTEX_SHADER, TOKEN_FRAGMENT_SHADER}
    /\ Halted(Exit1(LogError(ps)))
    /\ UNCHANGED <<src, shaders, pending_uniforms, pending_inputs, uptr, iptr, files,
                   cur_shader, freed, loaded>>

\* An end of parsing that returns 0 when no shader was parsed.
ParseDoneReturnsZero ==
    /\ pc = "parse"
    /\ ps.cur.type = TOKEN_EOF
    /\ IF shaders = <<>>
       THEN /\ ps' = LogError(ps)
            /\ pc' = "done"
            /\ exit_code' = 0
            /\ UNCHANGED cur_shader
       ELSE /\ pc' = "generate"
            /\ cur_shader' = 1
            /\ UNCHANGED <<ps, exit_code>>
    /\ UNCHANGED <<src, shaders, pending_uniforms, pending_inputs, uptr, iptr, files,
                   freed, loaded>>

\* The loop ends at a token of type TOKEN_EOF; main returns 1 when the list
\* is empty and goes on to generation otherwise.
ParseDone ==
    /\ pc = "parse"
    /\ ps.cur.type = TOKEN_EOF
    /\ IF shaders = <<>>
       THEN /\ ps' = LogError(ps)
            /\ pc' = "exited"
            /\ exit_code' = 1
            /\ UNCHANGED cur_shader
       ELSE /\ pc' = "generate"
            /\ cur_shader' = 1
            /\ UNCHANGED <<ps, exit_code>>
    /\ UNCHANGED <<src, shaders, pending_uniforms, pending_inputs, uptr, iptr, files,
                   freed, loaded>>

\* One pass of main's generation loop: generate_glsl, then
\* generate_metadata, for the shader the loop stands at.
GenerateShader ==
    /\ pc = "generate"
    /\ \E fail \in FopenFailures :
       \E output_path \in {output_path_of(Argv1, shaders[cur_shader])} :
       \E g \in {generate_glsl(shaders[cur_shader], output_path, files, fail)} :
       \E m \in {generate_metadata(shaders[cur_shader], output_path, g.fs, fail)} :
             IF g.exit
             THEN /\ files' = g.fs
                  /\ ps' = LogError(ps)
                  /\ pc' = "exited"
                  /\ exit_code' = 1
                  /\ UNCHANGED cur_shader
             ELSE IF m.exit
             THEN /\ files' = m.fs
                  /\ pc' = "exited"
                  /\ exit_code' = 1
                  /\ UNCHANGED <<ps, cur_shader>>
             ELSE /\ files' = m.fs
                  /\ pc' = IF cur_shader = Len(shaders) THEN "cleanup" ELSE "generate"
                  /\ cur_shader' = IF cur_shader = Len(shaders) THEN 1 ELSE cur_shader + 1
                  /\ UNCHANGED <<ps, exit_code>>
    /\ UNCHANGED <<src, shaders, pending_uniforms, pending_inputs, uptr, iptr, freed,
                   loaded>>

\* One pass of main's cleanup loop: cleanup_shader for the shader the loop
\* stands at.  An invalid free may end the process with a signal.
CleanupShader ==
    /\ pc = "cleanup"
    /\ \E ub \in UBOutcomes :
       \E f \in {free_all(cleanup_shader(shaders[cur_shader]), 1, freed, FALSE)} :
         /\ freed' = f.freed
         /\ IF f.invalid /\ ub = "crash"
            THEN /\ pc' = "crashed"
                 /\ exit_code' = 139
                 /\ UNCHANGED cur_shader
            ELSE /\ pc' = IF cur_shader = Len(shaders) THEN "finish" ELSE "cleanup"
                 /\ cur_shader' = cur_shader + 1
                 /\ UNCHANGED exit_code
    /\ UNCHANGED <<src, ps, shaders, pending_uniforms, pending_inputs, uptr, iptr, files,
                   loaded>>

\* The end of main: free(src) and return 0.
Finish ==
    /\ pc = "finish"
    /\ \E ub \in UBOutcomes : \E f \in {free_all(<<Ptr(1, 0)>>, 1, freed, FALSE)} :
         /\ freed' = f.freed
         /\ IF f.invalid /\ ub = "crash"
            THEN pc' = "crashed" /\ exit_code' = 139
            ELSE pc' = "done" /\ exit_code' = 0
    /\ UNCHANGED <<src, ps, shaders, pending_uniforms, pending_inputs, uptr, iptr, files,
                   cur_shader, loaded>>

\* Whether text ends with suffix.
EndsWith(text, suffix) ==
    Len(text) >= Len(suffix)
    /\ SubSeq(text, Len(text) - Len(suffix) + 1, Len(text)) = suffix

Extensions == {Str(".vert.glsl"), Str(".frag.glsl"), Str(".meta")}

\* The basenames a caller of fx_load may pass once the compiler has ended:
\* argv[1], and every written path less its extension.
Basenames ==
    {Argv1} \cup
    { SubSeq(pe[1], 1, Len(pe[1]) - Len(pe[2])) :
        pe \in {x \in (DOMAIN files) \X Extensions : EndsWith(x[1], x[2])} }

\* The runtime calls fx_load on the compiler's output.
FxLoad ==
    /\ pc \in {"done", "exited", "crashed"}
    /\ loaded = NotLoaded
    /\ \E b \in Basenames :
         loaded' = [name |-> b, result |-> IF fx_load(files, b) THEN "read" ELSE "failed"]
    /\ UNCHANGED <<src, pc, ps, shaders, pending_uniforms, pending_inputs, uptr, iptr,
                   files, cur_shader, freed, exit_code>>

Next ==
    \/ LoadFirstToken
    \/ TopShader
    \/ TopUniform
    \/ TopInput
    \/ TopStandalone
    \/ TopUnexpected
    \/ ParseDone
    \/ GenerateShader
    \/ CleanupShader
    \/ Finish
    \/ FxLoad

Spec == Init /\ [][Next]_vars

(***************************************************************************)
(* The generator on its own.  Each run starts where main's generation loop *)
(* starts, with the one shader the parser builds from a shader block,      *)
(* holding the uniform and input lists that declarations in the source     *)
(* give it: up to MaxUniforms uniforms, and up to MaxInputs inputs of any  *)
(* of the seven types.                                                     *)
(***************************************************************************)
MaxUniforms == 1
MaxInputs == 2

TypeNames ==
    { Str("float"), Str("vec2"), Str("vec3"), Str("vec4"), Str("mat4"),
      Str("sampler2D"), Str("samplerCube") }

\* The name of the i-th declaration of a list.
DeclNames == << Str("position"), Str("normal"), Str("uv"), Str("tangent"), Str("w") >>

\* The declaration lists of n nodes: every combination of types, the i-th
\* node named DeclNames[i], its strings in heap blocks of their own.
DeclLists(n, first_blk) ==
    { [i \in 1..n |-> Decl(types[i], DeclNames[i],
                           Ptr(first_blk + 2 * i, 0), Ptr(first_blk + 2 * i + 1, 0))] :
        types \in [1..n -> TypeNames] }

\* The uniform lists: the first n of three declarations.
UniformDecls ==
    << Decl(Str("mat4"), Str("mvp"), Ptr(102, 0), Ptr(103, 0)),
       Decl(Str("sampler2D"), Str("tex"), Ptr(104, 0), Ptr(105, 0)),
       Decl(Str("vec3"), Str("color"), Ptr(106, 0), Ptr(107, 0)) >>
UniformLists == { SubSeq(UniformDecls, 1, n) : n \in 0..MaxUniforms }
InputLists == UNION { DeclLists(n, 200) : n \in 0..MaxInputs }

ShaderBlocks ==
    { LegacyVertexBlock, LegacyStagesBlock, LegacyFragmentBlock, ModernVertexBlock,
      ModernFragmentBlock, ModernNamelessParamBlock }

\* What the parser builds from a source that is one shader block.
parse_block(s, p0) ==
    IF p0.cur.type = TOKEN_SHADER THEN parse_shader(s, p0, "lost")
    ELSE parse_standalone_shader(s, p0, "lost")

InitGen ==
    \E block \in ShaderBlocks, us \in UniformLists, ins \in InputLists :
    \E r \in {parse_block(block, parser_advance(block, StartState))} :
        /\ src = block
        /\ pc = "generate"
        /\ ps = r.ps
        /\ shaders = << [r.shader EXCEPT !.uniforms = us, !.inputs = ins] >>
        /\ pending_uniforms = <<>>
        /\ pending_inputs = <<>>
        /\ uptr = "tail"
        /\ iptr = "tail"
        /\ files = <<>>
        /\ cur_shader = 1
        /\ freed = {}
        /\ exit_code = -1
        /\ loaded = NotLoaded

NextGen == GenerateShader \/ FxLoad

SpecGen == InitGen /\ [][NextGen]_vars

(***************************************************************************)
(* The compiler on sources built for one construct each: bodies with       *)
(* nested braces up to MaxDepth deep, stage blocks with and without        *)
(* semantic annotations, declarations between two stage blocks, and an     *)
(* unrecognized byte between two stage blocks; every text of at most       *)
(* MaxLen bytes over the bytes the lexer tells apart; a body longer than    *)
(* the transformer's buffer; every single declaration, well-formed or not;  *)
(* and sources of declarations with a legacy block or with no shader.       *)
(***************************************************************************)
MaxDepth == 2

\* A body whose braces nest d deep.
RECURSIVE NestedBody(_)
NestedBody(d) ==
    IF d = 0 THEN Str("b = 2.0; ")
    ELSE Str("if (x) { ") \o NestedBody(d - 1) \o Str("} b = 2.0; ")

NestedLegacySource(d) == Str("shader S { void vertex(){ ") \o NestedBody(d) \o Str("} } ")
NestedModernSource(d) == Str("vertex_shader(){ ") \o NestedBody(d) \o Str("} ")

StageKeywords == { Str("vertex_shader"), Str("fragment_shader") }
Semantics == { Str(""), Str(" : POSITION"), Str(" : TEXCOORD0") }
OutTypes == { Str("vec3"), Str("vec4") }

\* A stage block with a parameter and, between two statements of its body,
\* an out declaration, each with the semantic annotation given.
StageSource(kw, type, psem, osem) ==
    kw \o Str("(vec3 position") \o psem \o Str("){ a = 1.0; out ") \o type
    \o Str(" v_normal") \o osem \o Str("; b = 2.0; } ")

InterleavedSource ==
    Str("uniform mat4 mvp; input vec3 position; ") \o ModernVertexBlock
    \o Str("uniform vec3 color; input vec2 uv; ") \o ModernFragmentBlock

UnknownByteSource == ModernVertexBlock \o UnknownByte \o ModernFragmentBlock

\* Every text of at most MaxLen bytes over the bytes the lexer tells apart:
\* a digit, the dot, a letter, blank and newline, the two bytes comments
\* are made of, and a byte outside the language.
MaxLen == 3
LexAlphabet == {"1", ".", "x", " ", "\n", "/", "*", "#"}
LexSources == UNION { [1..n -> LexAlphabet] : n \in 0..MaxLen }

\* A stage block whose body is one identifier that is one byte longer than
\* the transformer's buffer.
LongTokenSource ==
    Str("vertex_shader(){ ") \o [i \in 1..(BODY_CAPACITY + 1) |-> "x"] \o Str("; } ")

\* A top-level declaration: a keyword and what stands in the place of the
\* type, of the name and of the semicolon.
DeclKeywords == { Str("uniform"), Str("input") }
TypePlaces == TypeNames \cup { Str("Foo"), Str("void"), Str("out"), Str("2") }
NamePlaces == { Str("a"), Str("vec3"), Str("1"), Str("") }
EndPlaces == { Str(";"), Str(","), Str("") }
DeclSource(kw, type, name, end) ==
    kw \o Str(" ") \o type \o Str(" ") \o name \o end \o Str(" ")
DeclSources ==
    { DeclSource(kw, type, name, end) :
        kw \in DeclKeywords, type \in TypePlaces, name \in NamePlaces,
        end \in EndPlaces }

\* A legacy block between top-level declarations.
LegacyAmongDeclarations ==
    Str("uniform mat4 mvp; input vec2 uv; ") \o LegacyVertexBlock
    \o Str("uniform vec4 late; input float t; ")

\* Declarations and comments, and no shader.
CommentedDeclarations ==
    Str("// declarations\nuniform mat4 mvp; /* camera */ input vec3 position;\n")

CaseSources ==
    { NestedLegacySource(d) : d \in 0..MaxDepth }
    \cup { NestedModernSource(d) : d \in 0..MaxDepth }
    \cup { StageSource(kw, type, psem, osem) :
             kw \in StageKeywords, type \in OutTypes, psem \in Semantics,
             osem \in Semantics }
    \cup { InterleavedSource, UnknownByteSource }
    \cup LexSources
    \cup { LongTokenSource }
    \cup DeclSources
    \cup { LegacyAmongDeclarations, CommentedDeclarations }

InitCases == \E s \in CaseSources : InitOn(s)

SpecCases == InitCases /\ [][Next]_vars

(***************************************************************************)
(* Reading generated text.                                                 *)
(***************************************************************************)
\* Whether sub occurs in text.
Contains(text, sub) ==
    \E i \in 0..(Len(text) - Len(sub)) : SubSeq(text, i + 1, i + Len(sub)) = sub

\* Whether text starts with prefix.
StartsWith(text, prefix) ==
    Len(text) >= Len(prefix) /\ SubSeq(text, 1, Len(prefix)) = prefix

\* The index of the first newline of text, Len(text) + 1 when it has none.
FirstNewline(text) ==
    CHOOSE i \in 1..(Len(text) + 1) :
        /\ i = Len(text) + 1 \/ text[i] = "\n"
        /\ \A j \in 1..(i - 1) : text[j] # "\n"

\* The lines of text, each without its newline.
RECURSIVE Lines(_)
Lines(text) ==
    IF text = <<>> THEN <<>>
    ELSE LET n == FirstNewline(text) IN
         <<SubSeq(text, 1, n - 1)>> \o Lines(SubSeq(text, n + 1, Len(text)))

\* The lines of a GLSL file before the line that opens main.
RECURSIVE DeclarationLines(_)
DeclarationLines(lines) ==
    IF lines = <<>> \/ Head(lines) = Str("void main() {") THEN <<>>
    ELSE <<Head(lines)>> \o DeclarationLines(Tail(lines))

\* The paths main and the generator derive for a shader.
VertPath(shader) == Argv1 \o Str("_") \o shader.name \o Str(".vert.glsl")
FragPath(shader) == Argv1 \o Str("_") \o shader.name \o Str(".frag.glsl")
MetaPath(shader) == Argv1 \o Str("_") \o shader.name \o Str(".meta")

\* The indices of the functions of a shader tagged with a stage.
VertexFunctions(shader) ==
    {i \in 1..Len(shader.functions) : shader.functions[i].is_vertex}
FragmentFunctions(shader) ==
    {i \in 1..Len(shader.functions) : shader.functions[i].is_fragment}

(***************************************************************************)
(* Claims.                                                                 *)
(***************************************************************************)
\* The legacy source of the first scenario, compiled on its own.
LegacyVertexSource == LegacyVertexBlock

\* The text between the braces of its vertex function.
LegacyVertexBody == Str(" gl_Position = float4(position,1.0); ")

\* C1: once the legacy source `shader S { uniform vec3 color; input vec3
\* position; void vertex(){ ... } }` is compiled, the recorded shader name
\* is S and the file <input>_S.vert.glsl exists and holds `uniform vec3
\* color;`, `layout(location = 0) in vec3 position;` and a main whose body
\* is the legacy body text.
C1_LegacyVertexFile ==
    (src = LegacyVertexSource /\ pc = "done") =>
        /\ shaders[1].name = Str("S")
        /\ Str("t.fx_S.vert.glsl") \in DOMAIN files
        /\ Contains(files[Str("t.fx_S.vert.glsl")], Str("uniform vec3 color;"))
        /\ Contains(files[Str("t.fx_S.vert.glsl")],
                    Str("layout(location = 0) in vec3 position;"))
        /\ Contains(files[Str("t.fx_S.vert.glsl")],
                    Str("void main() {\n") \o LegacyVertexBody \o Str("}\n"))

\* The modern source of the second scenario.
ModernVertexSource ==
    Str("uniform mat4 mvp; input vec3 position; ") \o ModernVertexBlock

\* The text of main in a GLSL file: what follows the line that opens it.
MainBody(text) ==
    IF Contains(text, Str("void main() {\n"))
    THEN LET i == CHOOSE k \in 0..Len(text) :
                    SubSeq(text, k + 1, k + 14) = Str("void main() {\n")
         IN  SubSeq(text, i + 15, Len(text))
    ELSE <<>>

\* C2 as stated: once the modern source is compiled, the main body of the
\* vertex file holds the statement with every token separated by one space,
\* `gl_Position = mvp * vec4 ( position , 1.0 ) ;`, and the file holds
\* `layout(location = 0) in vec3 position;`.
C2_EveryTokenSpaced ==
    (src = ModernVertexSource /\ pc = "done") =>
        /\ Str("t.fx_vertex.vert.glsl") \in DOMAIN files
        /\ Contains(MainBody(files[Str("t.fx_vertex.vert.glsl")]),
                    Str("gl_Position = mvp * vec4 ( position , 1.0 ) ;"))
        /\ Contains(files[Str("t.fx_vertex.vert.glsl")],
                    Str("layout(location = 0) in vec3 position;"))

\* C2, amended: once the modern source is compiled, the main body of the
\* vertex file holds the statement spaced around its operators and after
\* its comma only, `gl_Position = mvp * vec4(position, 1.0);`, and the file
\* holds `layout(location = 0) in vec3 position;`.
C2_OperatorsSpaced ==
    (src = ModernVertexSource /\ pc = "done") =>
        /\ Str("t.fx_vertex.vert.glsl") \in DOMAIN files
        /\ Contains(MainBody(files[Str("t.fx_vertex.vert.glsl")]),
                    Str("gl_Position = mvp * vec4(position, 1.0);"))
        /\ Contains(files[Str("t.fx_vertex.vert.glsl")],
                    Str("layout(location = 0) in vec3 position;"))

\* C2's case: the modern source has been compiled and its vertex file
\* written.
C2_Compiled ==
    /\ src = ModernVertexSource
    /\ pc = "done"
    /\ Str("t.fx_vertex.vert.glsl") \in DOMAIN files

\* A source whose top-level uniform declaration lacks its semicolon.
MissingSemicolonSource == Str("uniform vec3 a ") \o ModernVertexBlock

\* C3: a run in which a parse failure was logged ends with exit code 1, and
\* never with exit code 0 and generated files; here for the source whose
\* uniform declaration lacks its semicolon.
C3_ParseErrorExitsWithOne ==
    (src = MissingSemicolonSource /\ exit_code # -1 /\ ps.errs > 0) =>
        (exit_code = 1 /\ ~(exit_code = 0 /\ files # <<>>))

\* The one shader of a generator run.
TheShader == shaders[1]

\* The decimal text of a location below ten.
LocationText(i) == <<(<<"0", "1", "2", "3", "4", "5", "6", "7", "8", "9">>)[i + 1]>>

\* The lines of a sequence of lines that start with prefix.
LinesWith(lines, prefix) == SelectSeq(lines, LAMBDA l : StartsWith(l, prefix))

\* C4: for a ShaderDef with N declared inputs and a vertex function, the
\* vertex file is written and its declarations hold exactly N layout lines,
\* the i-th being `layout(location = i) in <type> <name>;` for the i-th
\* declared input, counted from 0 in declaration order.
C4_LayoutLocations ==
    /\ (pc = "cleanup" /\ VertexFunctions(TheShader) # {}) =>
           VertPath(TheShader) \in DOMAIN files
    /\ VertPath(TheShader) \in DOMAIN files =>
         LET layout == LinesWith(DeclarationLines(Lines(files[VertPath(TheShader)])),
                                 Str("layout("))
         IN  /\ Len(layout) = Len(TheShader.inputs)
             /\ \A i \in 1..Len(TheShader.inputs) :
                  layout[i] = Str("layout(location = ") \o LocationText(i - 1)
                              \o Str(") in ") \o TheShader.inputs[i].type \o Str(" ")
                              \o TheShader.inputs[i].name \o Str(";")

\* C4's case: a vertex file written for a ShaderDef with two inputs of
\* different types.
C4_TwoInputsWritten ==
    /\ VertPath(TheShader) \in DOMAIN files
    /\ Len(TheShader.inputs) >= 2
    /\ TheShader.inputs[1].type # TheShader.inputs[2].type

Written(ext) == {b \in Basenames : b \o ext \in DOMAIN files}

\* C7: once a source whose shader block defines only a vertex function is
\* compiled, the block's `.vert.glsl` and `.meta` are written and its
\* `.frag.glsl` is not; once one whose block defines only a fragment
\* function is compiled, its `.frag.glsl` and `.meta` are written and its
\* `.vert.glsl` is not.  Here for the legacy blocks `shader S { ... void
\* vertex(){ ... } }` and `shader T { void fragment(out vec4 c) { ... } }`.
C7_SingleStageFiles ==
    /\ (src = LegacyVertexBlock /\ pc = "done") =>
         \E b \in Written(Str(".vert.glsl")) :
             b \in Written(Str(".meta")) /\ b \notin Written(Str(".frag.glsl"))
    /\ (src = LegacyFragmentBlock /\ pc = "done") =>
         \E b \in Written(Str(".frag.glsl")) :
             b \in Written(Str(".meta")) /\ b \notin Written(Str(".vert.glsl"))

\* The largest and the smallest number of a non-empty set of numbers.
Max(S) == CHOOSE x \in S : \A y \in S : y <= x
Min(S) == CHOOSE x \in S : \A y \in S : x <= y

\* The text write_function's contract gives main for a body.
MainOf(body) == Str("void main() {\n") \o body \o Str("}\n")

\* C8 as stated: the file of a stage ends with the main of the FIRST
\* function of the list tagged with that stage.
C8_FirstTaggedWins ==
    /\ VertPath(TheShader) \in DOMAIN files =>
         EndsWith(files[VertPath(TheShader)],
                  MainOf(TheShader.functions[Min(VertexFunctions(TheShader))]
                             .statements.text))
    /\ FragPath(TheShader) \in DOMAIN files =>
         EndsWith(files[FragPath(TheShader)],
                  MainOf(TheShader.functions[Min(FragmentFunctions(TheShader))]
                             .statements.text))

\* C8, amended: the file of a stage ends with the main of the LAST function
\* of the list tagged with that stage; earlier functions of the same stage
\* never reach the output.
C8_LastTaggedWins ==
    /\ VertPath(TheShader) \in DOMAIN files =>
         EndsWith(files[VertPath(TheShader)],
                  MainOf(TheShader.functions[Max(VertexFunctions(TheShader))]
                             .statements.text))
    /\ FragPath(TheShader) \in DOMAIN files =>
         EndsWith(files[FragPath(TheShader)],
                  MainOf(TheShader.functions[Max(FragmentFunctions(TheShader))]
                             .statements.text))

\* C8's case: both files written for a ShaderDef that holds two functions
\* tagged Vertex and two tagged Fragment.
C8_TwoPerStageWritten ==
    /\ VertPath(TheShader) \in DOMAIN files
    /\ FragPath(TheShader) \in DOMAIN files
    /\ Cardinality(VertexFunctions(TheShader)) >= 2
    /\ Cardinality(FragmentFunctions(TheShader)) >= 2

\* The source with a vertex_shader block followed by a fragment_shader
\* block, as in the repository's test shader.
BothStagesSource ==
    Str("uniform mat4 mvp; input vec3 position; ") \o ModernVertexBlock
    \o ModernFragmentBlock

\* C9: once a source that defines a vertex stage and a fragment stage is
\* compiled, there is one basename B for which `B.vert.glsl`, `B.frag.glsl`
\* and `B.meta` were written, and fx_load(B) reads its files.
C9_LoadableBasename ==
    (src = BothStagesSource /\ pc = "done") =>
        \E b \in Basenames :
            /\ b \in Written(Str(".vert.glsl"))
            /\ b \in Written(Str(".frag.glsl"))
            /\ b \in Written(Str(".meta"))
            /\ fx_load(files, b)

\* C10 as stated: in every ShaderDef the parser produced, at most one
\* function is tagged Vertex, at most one is tagged Fragment, and none is
\* tagged both.
C10_AtMostOnePerStage ==
    \A k \in 1..Len(shaders) :
        /\ Cardinality(VertexFunctions(shaders[k])) <= 1
        /\ Cardinality(FragmentFunctions(shaders[k])) <= 1
        /\ VertexFunctions(shaders[k]) \cap FragmentFunctions(shaders[k]) = {}

\* C10, amended: in every ShaderDef the parser produced no function is
\* tagged both Vertex and Fragment, and a ShaderDef built from a
\* vertex_shader or fragment_shader block holds exactly one function,
\* tagged with the stage its name tells; a legacy block may hold several
\* functions of one stage.
C10_OneStagePerFunction ==
    \A k \in 1..Len(shaders) :
        /\ VertexFunctions(shaders[k]) \cap FragmentFunctions(shaders[k]) = {}
        /\ shaders[k].standalone =>
             /\ Len(shaders[k].functions) = 1
             /\ shaders[k].functions[1].is_vertex = (shaders[k].name = Str("vertex"))
             /\ shaders[k].functions[1].is_fragment = (shaders[k].name = Str("fragment"))

\* C10's case: the parser has produced a standalone ShaderDef and a legacy
\* ShaderDef with two functions tagged Vertex.
C10_ParsedBothKinds ==
    /\ \E k \in 1..Len(shaders) : shaders[k].standalone
    /\ \E k \in 1..Len(shaders) : Cardinality(VertexFunctions(shaders[k])) >= 2

\* What the compiler's next step yields when an invalid store or an invalid
\* free of that step has the outcome ub, every fopen succeeding.
NextStepUnder(ub) ==
    IF pc = "parse" /\ ps.cur.type = TOKEN_SHADER
    THEN <<"shader", parse_shader(src, ps, ub)>>
    ELSE IF pc = "parse" /\ ps.cur.type = TOKEN_UNIFORM
    THEN <<"uniform", list_append(pending_uniforms, uptr, parse_uniform(src, ps).ok,
                                  parse_uniform(src, ps).node, ub)>>
    ELSE IF pc = "parse" /\ ps.cur.type = TOKEN_INPUT
    THEN <<"input", list_append(pending_inputs, iptr, parse_input(src, ps).ok,
                                parse_input(src, ps).node, ub)>>
    ELSE IF pc = "parse" /\ ps.cur.type \in {TOKEN_VERTEX_SHADER, TOKEN_FRAGMENT_SHADER}
    THEN <<"standalone", parse_standalone_shader(src, ps, ub)>>
    ELSE IF pc = "cleanup"
    THEN <<"cleanup", ub = "crash"
                      /\ free_all(cleanup_shader(shaders[cur_shader]), 1, freed, FALSE).invalid>>
    ELSE IF pc = "finish"
    THEN <<"finish", ub = "crash" /\ free_all(<<Ptr(1, 0)>>, 1, freed, FALSE).invalid>>
    ELSE <<"same">>

\* C11: compilation is deterministic: from every state a run reaches, the
\* next step of the compiler has one outcome, so two runs on the same input
\* bytes go through the same parser states, write the same files and end
\* with the same exit code.  Here for the source with top-level
\* declarations, a vertex_shader block and a fragment_shader block.
C11_Deterministic ==
    src = BothStagesSource =>
        \A ub1, ub2 \in UBOutcomes : NextStepUnder(ub1) = NextStepUnder(ub2)

\* The files a run leaves for a source that is one stage block, every fopen
\* succeeding.
CompiledAlone(s) ==
    LET r == parse_standalone_shader(s, parser_advance(s, StartState), "lost")
        output_path == output_path_of(Argv1, r.shader)
    IN  generate_metadata(r.shader, output_path,
                          generate_glsl(r.shader, output_path, <<>>, "none").fs,
                          "none").fs

\* C12: semantic annotations have no effect on the output: once a stage
\* block is compiled, whatever semantic annotation its parameter and the out
\* declaration of its body carry (none, or one of two identifiers), the
\* files written are those written for the block without annotations.
C12_SemanticsDiscarded ==
    \A kw \in StageKeywords, type \in OutTypes, psem \in Semantics, osem \in Semantics :
        (src = StageSource(kw, type, psem, osem) /\ pc = "done") =>
            files = CompiledAlone(StageSource(kw, type, Str(""), Str("")))

\* C12's case: a stage block annotated on its parameter and on its out
\* declaration, with two identifiers, has been compiled to its stage file
\* and its manifest.
C12_AnnotatedCompiled ==
    /\ pc = "done"
    /\ \E kw \in StageKeywords :
         src = StageSource(kw, Str("vec3"), Str(" : POSITION"), Str(" : TEXCOORD0"))
    /\ Cardinality(DOMAIN files) = 2

\* The type and name strings the declarations of two lists point to.
DeclStrings(uniforms, inputs) ==
    { decl_pointers(uniforms, 1)[i] : i \in 1..(2 * Len(uniforms)) }
    \cup { decl_pointers(inputs, 1)[i] : i \in 1..(2 * Len(inputs)) }

\* C13: the pending declarations are attached to each standalone shader as
\* deep copies: no type or name string is referenced by two ShaderDefs, or
\* by a ShaderDef and the pending buffer, and the cleanup of every ShaderDef
\* frees each string once.  Here for the source with top-level declarations
\* followed by two stage blocks.
C13_NoSharedStrings ==
    src = BothStagesSource =>
        /\ \A i, j \in 1..Len(shaders) :
             i < j => DeclStrings(shaders[i].uniforms, shaders[i].inputs)
                      \cap DeclStrings(shaders[j].uniforms, shaders[j].inputs) = {}
        /\ \A i \in 1..Len(shaders) :
             DeclStrings(shaders[i].uniforms, shaders[i].inputs)
             \cap DeclStrings(pending_uniforms, pending_inputs) = {}
        /\ pc = "cleanup" =>
             ~free_all(cleanup_shader(shaders[cur_shader]), 1, freed, FALSE).invalid

\* The types and names of a declaration list.
DeclValues(list) == [i \in 1..Len(list) |-> <<list[i].type, list[i].name>>]

\* The declarations of a pending list parsed before the shader: their
\* strings were allocated before the shader's name was.
PendingBefore(list, shader) ==
    SelectSeq(list, LAMBDA d : d.tptr.blk < shader.nptr.blk)

C15_UnexpectedTokenIsFatal ==
    src = UnknownByteSource =>
        /\ pc \in {"generate", "cleanup", "finish", "done"} => ps.pos >= Len(src)
        /\ exit_code = 0 => Len(shaders) = 2

\* C16: the FunctionDef of a legacy function `void NAME(...) { ... }` is
\* named NAME, tagged Vertex exactly when NAME is `vertex` and tagged
\* Fragment exactly when NAME is `fragment`.  Here for the functions of
\* `shader S { ... void vertex(){ ... } }` and of `shader T { void
\* fragment(out vec4 c) { ... } }`.
C16_LegacyFunctionNamed ==
    /\ (src = LegacyVertexBlock /\ pc \notin {"parse_begin", "parse"}) =>
         /\ Len(shaders) = 1 /\ Len(shaders[1].functions) = 1
         /\ shaders[1].functions[1].name = Str("vertex")
         /\ shaders[1].functions[1].is_vertex
         /\ ~shaders[1].functions[1].is_fragment
    /\ (src = LegacyFragmentBlock /\ pc \notin {"parse_begin", "parse"}) =>
         /\ Len(shaders) = 1 /\ Len(shaders[1].functions) = 1
         /\ shaders[1].functions[1].name = Str("fragment")
         /\ shaders[1].functions[1].is_fragment
         /\ ~shaders[1].functions[1].is_vertex

\* C17: a legacy function body is captured up to the brace that matches its
\* opening brace: for `shader S { void vertex(){ BODY } }` with balanced
\* braces nested in BODY the captured span is BODY less the blank after the
\* opening brace, the parser resumes after the closing brace and the block
\* is parsed to its end, giving one ShaderDef.
C17_LegacyBodyToMatchingBrace ==
    \A d \in 0..MaxDepth :
        (src = NestedLegacySource(d) /\ pc \notin {"parse_begin", "parse"}) =>
            /\ Len(shaders) = 1
            /\ Len(shaders[1].functions) = 1
            /\ shaders[1].functions[1].statements.length = Len(NestedBody(d))
            /\ ps.halt = "run"

\* How many bytes of text are the byte c.
Count(text, c) == Cardinality({i \in 1..Len(text) : text[i] = c})

\* C18: the body transformer copies inner braces and ends only at the `}`
\* of depth 0: for `vertex_shader(){ BODY }` with balanced braces nested d
\* deep in BODY, the block is parsed to its end without a parse error, the
\* source is exhausted after it, and the transformed text holds the d
\* opening and the d closing braces of BODY.
C18_InnerBracesCopied ==
    \A d \in 0..MaxDepth :
        (src = NestedModernSource(d) /\ pc \notin {"parse_begin", "parse"}) =>
            /\ ps.halt = "run"
            /\ ps.pos >= Len(src)
            /\ Len(shaders) = 1
            /\ Count(shaders[1].functions[1].statements.text, "{") = d
            /\ Count(shaders[1].functions[1].statements.text, "}") = d

\* C19: a malformed modern parameter list ends the process: no FunctionDef
\* is returned and compilation does not go on.  Here for the block
\* `vertex_shader(vec3){ ... }`, whose parameter has no identifier: once its
\* parameter list is parsed the run has ended with exit code 1 and holds no
\* ShaderDef.
C19_MalformedParametersFatal ==
    (src = ModernNamelessParamBlock /\ pc \notin {"parse_begin", "parse"}) =>
        /\ shaders = <<>>
        /\ pc = "exited"
        /\ exit_code = 1

\* C20: an `out <Type> <Identifier> [: SEMANTIC] ;` declaration in a modern
\* body adds exactly `out <Type> <Identifier>;` and a newline to the
\* transformed text in a vertex stage and nothing in a fragment stage, and
\* all of its tokens are consumed: for a body with the declaration between
\* the statements `a = 1.0;` and `b = 2.0;` the text is that of the two
\* statements with, in a vertex stage, the rewritten declaration between
\* them, and the block is parsed to its end without a parse error.
C20_OutDeclaration ==
    \A kw \in StageKeywords, type \in OutTypes, psem \in Semantics, osem \in Semantics :
        (src = StageSource(kw, type, psem, osem) /\ pc \notin {"parse_begin", "parse"}) =>
            /\ Len(shaders) = 1
            /\ pc = "generate" => ps.errs = 0
            /\ ps.pos >= Len(src)
            /\ shaders[1].functions[1].statements.text =
                 Str("a = 1.0;\n    ")
                 \o (IF kw = Str("vertex_shader")
                     THEN Str("out ") \o type \o Str(" v_normal;\n") ELSE <<>>)
                 \o Str("b = 2.0;\n    ")

\* C20's case: a vertex block whose out declaration carries a semantic has
\* been parsed.
C20_OutDeclarationParsed ==
    /\ src = StageSource(Str("vertex_shader"), Str("vec4"), Str(""), Str(" : TEXCOORD0"))
    /\ pc = "generate"
    /\ Len(shaders) = 1

(***************************************************************************)
(* C21.  Number tokens.                                                    *)
(***************************************************************************)
\* The offsets of s the lexer can be called at: all but those strictly
\* inside a run of letters and digits, where no token ends.
Cursors(s) ==
    { p \in 0..Len(s) : p = 0 \/ ~(is_alnum(s[p]) /\ is_alnum(CharAt(s, p))) }

\* The token lexer_next returns from every such offset of the source.
TokensOf(s) == { lexer_next(s, p).tok : p \in Cursors(s) }

IsDigits(text) == \A i \in 1..Len(text) : text[i] \in Digit

\* text is one or more digits, then possibly a dot and digits: one or more
\* of them when a digit is required after the dot, any number otherwise.
NumberShape(text, digit_required) ==
    \E k \in 1..Len(text) :
        /\ IsDigits(SubSeq(text, 1, k))
        /\ \/ k = Len(text)
           \/ /\ text[k + 1] = "."
              /\ IsDigits(SubSeq(text, k + 2, Len(text)))
              /\ digit_required => k + 2 <= Len(text)

\* C21 (as stated): every number token the lexer returns has the form
\* [0-9]+(\.[0-9]+)?, that is, a dot is part of the token only when a digit
\* follows it.
C21_FractionNeedsDigit ==
    \A t \in TokensOf(src) :
        t.type = TOKEN_NUMBER => NumberShape(TokenText(src, t), TRUE)

\* C21 (amended): every number token the lexer returns is the longest text
\* of the form [0-9]+(\.[0-9]*)? at its offset: the dot that follows the
\* digits always belongs to the token, with or without digits after it.
C21_NumberTokens ==
    \A t \in TokensOf(src) :
        t.type = TOKEN_NUMBER =>
            /\ NumberShape(TokenText(src, t), FALSE)
            /\ ~is_digit(CharAt(src, t.start + t.length))
            /\ CharAt(src, t.start + t.length) = "."
                   => "." \in { src[i] : i \in t.start + 1..t.start + t.length }

\* C21 witness: the compiler has read the number token of «1.x», which is
\* the two bytes «1.».
C21_DotWithoutDigitLexed ==
    /\ src = Str("1.x")
    /\ pc = "parse"
    /\ ps.cur = Token(TOKEN_NUMBER, 0, 2)

(***************************************************************************)
(* C22.  The transformer's buffer.                                         *)
(***************************************************************************)
\* The parser at the first token of the body of a block «keyword(){ ... }»
\* whose keyword is the current token of p.
AtBodyOf(s, p) ==
    parser_advance(s, parser_advance(s, parser_advance(s, parser_advance(s, p))))

\* C22: the body transformer stores no byte outside its buffer of
\* BODY_CAPACITY bytes: the text it has stored when it returns or ends the
\* process, and the terminator, fit in the buffer, and no run of the
\* compiler is ended by an invalid store.
C22_StoresWithinBuffer ==
    src = LongTokenSource =>
        /\ pc # "crashed"
        /\ pc = "parse" /\ ps.cur.type = TOKEN_VERTEX_SHADER =>
               Len(parse_function_body_to_glsl(src, AtBodyOf(src, ps), TRUE, "lost").body) + 1
                   <= BODY_CAPACITY

(***************************************************************************)
(* C23.  What a declaration parser accepts.                                *)
(***************************************************************************)
\* The declaration a well-formed declaration text yields: none unless the
\* type is a builtin type keyword, the name an identifier and the end `;`.
Accepted(type, name, end) ==
    type \in TypeNames /\ name = Str("a") /\ end = Str(";")
DeclOf(type, name, end) ==
    IF Accepted(type, name, end) THEN << <<type, name>> >> ELSE <<>>

LexerAdvances(s) ==
    \A p \in Cursors(s) :
        /\ p < Len(s) => lexer_next(s, p).pos > p
        /\ lexer_next(s, p).pos <= Len(s)

\* At every token of s that does not end the transformer's loop, one
\* iteration of the loop consumes the token or ends the process.
BodyStepAdvances(s) ==
    \A p \in Cursors(s), is_vertex \in BOOLEAN :
        LET q == parser_advance(s, [StartState EXCEPT !.pos = p])
            r == body_step(s, q, is_vertex,
                           [body |-> <<>>, depth |-> 0, prev |-> TOKEN_EOF])
        IN  q.cur.type \notin {TOKEN_RBRACE, TOKEN_EOF} =>
                r.ps.halt # "run" \/ r.ps.cur.start > q.cur.start

\* C24: compilation terminates.  lexer_next moves the cursor forward by at
\* least one byte from every offset before the end and never past the end;
\* every pass of the top-level loop (with the block, parameter and body
\* loops it runs to their end) consumes at least one token or leaves the
\* loop, as does every iteration of the transformer's loop; the current
\* token never lies past the end of the source, so the passes are bounded
\* by the length of the source.  The source never changes, so what holds
\* of it is looked at in the first step of a run.
C24_Progress ==
    [][ /\ pc = "parse_begin" => LexerAdvances(src) /\ BodyStepAdvances(src)
        /\ pc = "parse" => pc' # "parse" \/ ps'.cur.start > ps.cur.start
        /\ ps'.cur.start <= Len(src) /\ ps'.pos <= Len(src)
      ]_vars

\* C24 witness: the lexer has run through the unterminated comment «/*x»
\* and stands at the end of the source.
C24_UnterminatedCommentLexed ==
    /\ src = Str("/*x")
    /\ pc = "parse"
    /\ ps.cur = Token(TOKEN_EOF, 3, 0)
    /\ ps.pos = 3

(***************************************************************************)
(* C25.  Appending after a failed declaration.                             *)
(***************************************************************************)
\* Two inputs, the first without its semicolon.
FailedThenGoodSource == Str("input vec3 a input vec3 b; ")

\* C25: after parse_uniform or parse_input has returned NULL, no declaration
\* is appended through a link derived from the NULL result: the top-level
\* loop never stands at a declaration with such a link as its cursor, and
\* the declaration that follows a failed one is in the list once parsed.
C25_AppendAfterFailure ==
    /\ pc = "parse" /\ ps.cur.type = TOKEN_UNIFORM => uptr # "wild"
    /\ pc = "parse" /\ ps.cur.type = TOKEN_INPUT => iptr # "wild"
    /\ src = FailedThenGoodSource /\ ps.cur.start = Len(src) =>
           /\ pc # "crashed"
           /\ DeclValues(pending_inputs) = << <<Str("vec3"), Str("b")>> >>

(***************************************************************************)
(* C26.  Output paths of the shaders of one run.                           *)
(***************************************************************************)
\* Sources of two different blocks: the legacy blocks «shader S» and
\* «shader T», and two vertex_shader blocks with different bodies.
TwoBlockSources ==
    { LegacyVertexBlock \o LegacyFragmentBlock,
      ModernVertexBlock \o ModernNamelessParamBlock }

\* C26: the shaders parsed from one file are written to different output
\* paths: no two of them share the path «argv[1]_name» their files are
\* named after, so no file of a shader is overwritten by a later shader.
C26_DistinctOutputPaths ==
    src \in TwoBlockSources =>
        \A i, j \in 1..Len(shaders) :
            i # j => output_path_of(Argv1, shaders[i]) # output_path_of(Argv1, shaders[j])

(***************************************************************************)
(* C27.  What the final cleanup frees.                                     *)
(***************************************************************************)
\* The pointers the cleanup loop of main passes to free for shader k.
FreedFor(k) == { cleanup_shader(shaders[k])[i] :
                   i \in 1..Len(cleanup_shader(shaders[k])) } \ {NULL}

\* C27: the cleanup frees only blocks of the heap, each at most once: no
\* pointer it passes to free points into the source buffer (block 1, where
\* the body text of a legacy function lies), no free of a run over one
\* legacy block is invalid, and the source buffer is freed when main
\* returns.
C27_CleanupFreesHeapBlocks ==
    /\ \A k \in 1..Len(shaders) : \A p \in FreedFor(k) : p.blk # 1
    /\ src = LegacyVertexBlock /\ pc = "cleanup" =>
           ~free_all(cleanup_shader(shaders[cur_shader]), 1, freed, FALSE).invalid
    /\ src = LegacyVertexBlock => pc # "crashed"
    /\ pc = "done" => 1 \in freed

(***************************************************************************)
(* C28.  Parsing comes before every write.                                 *)
(***************************************************************************)
\* The paths a step creates or gives new contents.
ChangedPaths ==
    { p \in DOMAIN files' : p \notin DOMAIN files \/ files'[p] # files[p] }

\* C28: no output file is written before the whole source is parsed.
\* Every step that changes a file is a pass of the generation loop; while
\* the parser runs, and after a run the parser has ended (exit or signal),
\* no file exists; a pass of the generation loop writes only the files of
\* its own shader, starts only when the manifest of the shader before is
\* written, and writes the manifest only with the GLSL files of the stages
\* the shader has.
C28_ParseBeforeWrite ==
    [][ /\ files' # files => pc = "generate"
        /\ pc' \in {"parse_begin", "parse"} => files' = <<>>
        /\ ps'.halt # "run" => files' = <<>>
        /\ pc = "generate" =>
             LET s == shaders[cur_shader]
                 glsl == (IF VertexFunctions(s) # {} THEN {VertPath(s)} ELSE {})
                         \cup (IF FragmentFunctions(s) # {} THEN {FragPath(s)} ELSE {})
             IN  /\ ChangedPaths \subseteq {VertPath(s), FragPath(s), MetaPath(s)}
                 /\ cur_shader > 1 => MetaPath(shaders[cur_shader - 1]) \in DOMAIN files
                 /\ MetaPath(s) \in ChangedPaths => glsl \subseteq DOMAIN files'
                 /\ pc' # "exited" => glsl \cup {MetaPath(s)} \subseteq DOMAIN files'
      ]_vars

\* C28 witness: a run that parsed one shader and then ended at a stray
\* token has exited, and no file exists.
C28_FatalErrorAfterShader ==
    /\ pc = "exited"
    /\ ps.halt = "exit"
    /\ Len(shaders) = 1
    /\ files = <<>>

(***************************************************************************)
(* C29.  Pending declarations reach only the standalone shaders after them. *)
(***************************************************************************)
\* The strings of the declarations of two lists.
StringsOf(uniforms, inputs) ==
    { uniforms[i].tptr : i \in 1..Len(uniforms) }
    \cup { uniforms[i].nptr : i \in 1..Len(uniforms) }
    \cup { inputs[i].tptr : i \in 1..Len(inputs) }
    \cup { inputs[i].nptr : i \in 1..Len(inputs) }

\* C29: top-level declarations affect only the standalone shaders after
\* them.  No step changes a shader that is already parsed, so a declaration
\* that comes after a shader does not reach it; the lists of a legacy block
\* hold no declaration of the pending lists; and the block of
\* LegacyAmongDeclarations holds exactly the uniform and the input written
\* inside its braces.
C29_PendingOnlyForward ==
    [][ /\ \A k \in 1..Len(shaders) : Len(shaders') >= k /\ shaders'[k] = shaders[k]
        /\ \A k \in 1..Len(shaders') :
             ~shaders'[k].standalone =>
                 StringsOf(shaders'[k].uniforms, shaders'[k].inputs)
                 \cap StringsOf(pending_uniforms', pending_inputs') = {}
        /\ src = LegacyAmongDeclarations /\ Len(shaders') >= 1 =>
             /\ DeclValues(shaders'[1].uniforms) = << <<Str("vec3"), Str("color")>> >>
             /\ DeclValues(shaders'[1].inputs) = << <<Str("vec3"), Str("position")>> >>
      ]_vars

\* C29 witness: the legacy block of LegacyAmongDeclarations is parsed, with
\* its own uniform alone, and so are the declarations before and after it.
C29_LegacyBlockAmongDeclarations ==
    /\ src = LegacyAmongDeclarations
    /\ Len(shaders) = 1 /\ ~shaders[1].standalone
    /\ DeclValues(shaders[1].uniforms) = << <<Str("vec3"), Str("color")>> >>
    /\ DeclValues(pending_uniforms)
         = << <<Str("mat4"), Str("mvp")>>, <<Str("vec4"), Str("late")>> >>
    /\ DeclValues(pending_inputs)
         = << <<Str("vec2"), Str("uv")>>, <<Str("float"), Str("t")>> >>

(***************************************************************************)
(* C30.  A source without a shader.                                        *)
(***************************************************************************)
\* The sources that hold no shader: those the lexer skips as a whole (the
\* empty source, blanks, comments) and those of well-formed top-level
\* declarations alone.
NoShaderSource(s) ==
    \/ skip_whitespace(s, 0) = Len(s)
    \/ s = CommentedDeclarations
    \/ \E kw \in DeclKeywords, type \in TypeNames :
         s = DeclSource(kw, type, Str("a"), Str(";"))

\* C30: a source that yields no shader makes the compiler exit with code 1
\* and write no file: its run never reaches generation, and once parsing
\* is over the process has exited with 1.
C30_NoShaderExitsWithOne ==
    NoShaderSource(src) =>
        /\ shaders = <<>>
        /\ files = <<>>
        /\ pc \in {"parse_begin", "parse", "exited"}
        /\ pc = "exited" => exit_code = 1
        /\ pc # "exited" => exit_code = -1

\* C30 witness: the run on a source of comments and two declarations has
\* exited with 1, with both declarations parsed and no file written.
C30_OnlyDeclarationsCompiled ==
    /\ src = CommentedDeclarations
    /\ pc = "exited"
    /\ exit_code = 1
    /\ Len(pending_uniforms) = 1 /\ Len(pending_inputs) = 1
    /\ ps.errs = 1
    /\ files = <<>>

=============================================================================
